---- MODULE Spec2Model ----
(***************************************************************************)
(* Merge queue with integration branches (gt mq integration create/land).  *)
(* Strings are sequences of one-character strings, so that template        *)
(* expansion, branch-name validation and the description fields are        *)
(* computed character by character as the Go code computes them.           *)
(***************************************************************************)
EXTENDS Integers, Sequences, FiniteSets, TLC

(***************************************************************************)
(* String helpers (Go package strings).                                    *)
(***************************************************************************)
Upper == <<"A","B","C","D","E","F","G","H","I","J","K","L","M","N","O","P","Q","R","S","T","U","V","W","X","Y","Z">>
Lower == <<"a","b","c","d","e","f","g","h","i","j","k","l","m","n","o","p","q","r","s","t","u","v","w","x","y","z">>

IsSpace(c) == c \in {" ", "\t", "\n", "\r", "\f"}

ToLowerChar(c) ==
  IF \E i \in 1..26 : Upper[i] = c
    THEN Lower[CHOOSE i \in 1..26 : Upper[i] = c]
    ELSE c

ToLower(s) == [i \in 1..Len(s) |-> ToLowerChar(s[i])]

HasPrefix(s, p) == Len(p) <= Len(s) /\ SubSeq(s, 1, Len(p)) = p

HasSuffix(s, p) == Len(p) <= Len(s) /\ SubSeq(s, Len(s) - Len(p) + 1, Len(s)) = p

Contains(s, sub) ==
  \E i \in 1..(Len(s) - Len(sub) + 1) : SubSeq(s, i, i + Len(sub) - 1) = sub

TrimPrefix(s, p) == IF HasPrefix(s, p) THEN SubSeq(s, Len(p) + 1, Len(s)) ELSE s

\* Index of the first occurrence of sub in s, 0 when there is none.
Index(s, sub) ==
  IF Contains(s, sub)
    THEN CHOOSE i \in 1..(Len(s) - Len(sub) + 1) :
           /\ SubSeq(s, i, i + Len(sub) - 1) = sub
           /\ \A j \in 1..(i - 1) : SubSeq(s, j, j + Len(sub) - 1) # sub
    ELSE 0

RECURSIVE ReplaceAll(_, _, _)
ReplaceAll(s, old, new) ==
  IF Index(s, old) = 0
    THEN s
    ELSE SubSeq(s, 1, Index(s, old) - 1) \o new
           \o ReplaceAll(SubSeq(s, Index(s, old) + Len(old), Len(s)), old, new)

TrimSpace(s) ==
  IF \A i \in 1..Len(s) : IsSpace(s[i])
    THEN << >>
    ELSE LET first == CHOOSE i \in 1..Len(s) :
                        ~IsSpace(s[i]) /\ \A j \in 1..(i - 1) : IsSpace(s[j])
             last  == CHOOSE i \in 1..Len(s) :
                        ~IsSpace(s[i]) /\ \A j \in (i + 1)..Len(s) : IsSpace(s[j])
         IN  SubSeq(s, first, last)

\* strings.Fields: the maximal runs of non-space characters of s
RECURSIVE Fields(_)
Fields(s) ==
  IF s = << >> THEN << >>
  ELSE IF IsSpace(s[1]) THEN Fields(Tail(s))
  ELSE LET n == IF \E i \in 1..Len(s) : IsSpace(s[i])
                  THEN (CHOOSE i \in 1..Len(s) :
                          IsSpace(s[i]) /\ \A j \in 1..(i - 1) : ~IsSpace(s[j])) - 1
                  ELSE Len(s)
       IN  <<SubSeq(s, 1, n)>> \o Fields(SubSeq(s, n + 1, Len(s)))

\* strings.Split(s, "\n"): the lines of s, one element for the empty string.
RECURSIVE SplitLines(_)
SplitLines(s) ==
  IF Index(s, <<"\n">>) = 0
    THEN <<s>>
    ELSE <<SubSeq(s, 1, Index(s, <<"\n">>) - 1)>>
           \o SplitLines(SubSeq(s, Index(s, <<"\n">>) + 1, Len(s)))

\* strings.Join(lines, "\n")
RECURSIVE JoinLines(_)
JoinLines(lines) ==
  IF Len(lines) = 0 THEN << >>
  ELSE IF Len(lines) = 1 THEN lines[1]
  ELSE lines[1] \o <<"\n">> \o JoinLines(Tail(lines))

(***************************************************************************)
(* Names used by the commands.                                             *)
(***************************************************************************)
EmptyStr == << >>
Main == <<"m","a","i","n">>
OriginSlash == <<"o","r","i","g","i","n","/">>
DefaultIntegrationBranchTemplate ==
  <<"i","n","t","e","g","r","a","t","i","o","n","/","{","e","p","i","c","}">>
EpicVar == <<"{","e","p","i","c","}">>
PrefixVar == <<"{","p","r","e","f","i","x","}">>
UserVar == <<"{","u","s","e","r","}">>
IntegrationBranchKey ==
  <<"i","n","t","e","g","r","a","t","i","o","n","_","b","r","a","n","c","h">>
BaseBranchKey == <<"b","a","s","e","_","b","r","a","n","c","h">>
TargetKey == <<"t","a","r","g","e","t">>
\* git config user.name of the operator
GitUserName == <<"k","l">>

(***************************************************************************)
(* Name & metadata engine.                                                 *)
(***************************************************************************)
\* Characters of the id before the first "-", the whole id when there is none.
ExtractEpicPrefix(epicID) ==
  IF Index(epicID, <<"-">>) = 0
    THEN epicID
    ELSE SubSeq(epicID, 1, Index(epicID, <<"-">>) - 1)

BuildIntegrationBranchName(template, epicID) ==
  LET t  == IF template = EmptyStr THEN DefaultIntegrationBranchTemplate ELSE template
      r1 == ReplaceAll(t, EpicVar, epicID)
      r2 == ReplaceAll(r1, PrefixVar, ExtractEpicPrefix(epicID))
  IN  ReplaceAll(r2, UserVar, GitUserName)

\* invalidBranchCharsRegex: [~^:\s\\]|\.\.|\.\.|@\{
InvalidBranchCharsMatch(s) ==
  \/ \E i \in 1..Len(s) : s[i] \in {"~", "^", ":", "\\"} \/ IsSpace(s[i])
  \/ Contains(s, <<".", ".">>)
  \/ Contains(s, <<"@", "{">>)

\* Variant: no check for consecutive slashes.
validateBranchName_NoDoubleSlash(branchName) ==
  /\ branchName # EmptyStr
  /\ ~InvalidBranchCharsMatch(branchName)
  /\ ~HasSuffix(branchName, <<".","l","o","c","k">>)
  /\ ~(HasPrefix(branchName, <<"/">>) \/ HasSuffix(branchName, <<"/">>))
  /\ ~(HasPrefix(branchName, <<".">>) \/ HasSuffix(branchName, <<".">>))

\* TRUE when validateBranchName returns nil.
validateBranchName(branchName) ==
  /\ branchName # EmptyStr
  /\ ~InvalidBranchCharsMatch(branchName)
  /\ ~HasSuffix(branchName, <<".","l","o","c","k">>)
  /\ ~(HasPrefix(branchName, <<"/">>) \/ HasSuffix(branchName, <<"/">>))
  /\ ~(HasPrefix(branchName, <<".">>) \/ HasSuffix(branchName, <<".">>))
  /\ ~Contains(branchName, <<"/", "/">>)

\* A line carries the field key when, trimmed and lower-cased, it starts "key:".
IsFieldLine(line, key) == HasPrefix(ToLower(TrimSpace(line)), key \o <<":">>)

\* Trimmed value of the first line carrying the key, empty when absent.
GetField(description, key) ==
  LET lines == SplitLines(description)
  IN  IF \E i \in 1..Len(lines) : IsFieldLine(lines[i], key)
        THEN LET i == CHOOSE k \in 1..Len(lines) :
                        /\ IsFieldLine(lines[k], key)
                        /\ \A j \in 1..(k - 1) : ~IsFieldLine(lines[j], key)
                 t == TrimSpace(lines[i])
             IN  TrimSpace(SubSeq(t, Len(key) + 2, Len(t)))
        ELSE EmptyStr

\* Variant of AddField that rewrites the first line carrying the key where it stands.
AddField_InPlace(description, key, value) ==
  LET fieldLine == key \o <<":", " ">> \o value
      lines     == SplitLines(description)
  IN  IF description = EmptyStr
        THEN fieldLine
      ELSE IF \E i \in 1..Len(lines) : IsFieldLine(lines[i], key)
        THEN JoinLines([i \in 1..Len(lines) |->
                          IF IsFieldLine(lines[i], key) THEN fieldLine ELSE lines[i]])
      ELSE JoinLines(<<fieldLine>> \o lines)

\* Variant of AddField that writes the field as the last line and removes nothing.
AddField_Append(description, key, value) ==
  LET fieldLine == key \o <<":", " ">> \o value
  IN  IF description = EmptyStr
        THEN fieldLine
        ELSE JoinLines(SplitLines(description) \o <<fieldLine>>)

\* "key: value" as the first line; every earlier line with the key removed.
AddField(description, key, value) ==
  LET fieldLine == key \o <<":", " ">> \o value
      lines     == SplitLines(description)
      kept      == SelectSeq(lines, LAMBDA l : ~IsFieldLine(l, key))
  IN  IF description = EmptyStr
        THEN fieldLine
        ELSE JoinLines(<<fieldLine>> \o kept)

GetIntegrationBranchField(description) == GetField(description, IntegrationBranchKey)
GetBaseBranchField(description) == GetField(description, BaseBranchKey)
AddIntegrationBranchField(description, branchName) ==
  AddField(description, IntegrationBranchKey, branchName)
AddBaseBranchField(description, baseBranch) ==
  AddField(description, BaseBranchKey, baseBranch)


(***************************************************************************)
(* The rig: issue store, repository refs, land worktree, rig settings.     *)
(***************************************************************************)
E1 == <<"a","-","1">>
T1 == <<"a","-","2">>
M1 == <<"a","-","3">>
MissingID == <<"z","-","9">>
Dev == <<"d","e","v">>
FeatureTemplate == <<"f","/","{","e","p","i","c","}">>
UserTemplate == <<"{","u","s","e","r","}","/","{","e","p","i","c","}">>
LockTemplate == <<"{","e","p","i","c","}",".","l","o","c","k">>
\* merge_queue.test_command values: a command, and a value of blanks only
MakeTest == <<"m","a","k","e"," ","t","e","s","t">>
BlankCommand == <<" "," ">>
OriginalText == <<"A","u","t","h">>
MRLabel == "gt:merge-request"

IssueIDs == {E1, T1, M1}
Procs == {"operator", "patrol"}
Outcomes == {"ok", "err"}

\* Upper bound on the number of command invocations in one behaviour.
MaxInvocations == 2

VARIABLES
  issues,       \* issue store: id -> [type, status, parent, description, labels]
  local,        \* refs/heads of the rig repository: branch -> set of commits
  track,        \* refs/remotes/origin of the rig repository
  origin,       \* branches of the remote origin
  wt,           \* .land-worktree: [dir, reg, owner, branch]
  bareRepo,     \* .repo.git exists in the rig
  testCommand,  \* merge_queue.test_command of the rig settings, empty when not configured
  rigTemplate,  \* merge_queue.integration_branch_template of the rig settings
  created,      \* history: <<epic, branch>> pairs pushed by a successful Create
  started,      \* history: number of invocations started
  inv           \* per process: the running command, its locals and its log

vars == <<issues, local, track, origin, wt, bareRepo, testCommand, rigTemplate, created, started, inv>>

Idle ==
  [op |-> "none", pc |-> "idle", epicID |-> EmptyStr, force |-> FALSE,
   skipTests |-> FALSE, dryRun |-> FALSE, tmpl |-> EmptyStr, base |-> EmptyStr,
   branchName |-> EmptyStr, targetBranch |-> EmptyStr, epicDesc |-> EmptyStr,
   result |-> "none", err |-> "none", diff |-> "none", events |-> << >>,
   current |-> EmptyStr, depth |-> 0,
   tick |-> [refinery |-> "absent", autoLand |-> "absent", queue |-> << >>,
             seen |-> << >>, lands |-> << >>, origin0 |-> << >>, issues0 |-> << >>],
   meta |-> [key |-> EmptyStr, value |-> EmptyStr, decoded |-> EmptyStr],
   out |-> [ahead |-> 0, merged |-> {}, pending |-> {}, childrenTotal |-> 0,
            childrenClosed |-> 0, ready |-> FALSE],
   pre |-> [origin |-> << >>, local |-> << >>, track |-> << >>,
            issues |-> << >>, wt |-> << >>]]

NoWorktree == [dir |-> FALSE, reg |-> FALSE, owner |-> "none", branch |-> EmptyStr]

Snapshot == [origin |-> origin, local |-> local, track |-> track,
             issues |-> issues, wt |-> wt]

\* f with branch b removed
Without(f, b) == [n \in DOMAIN f \ {b} |-> f[n]]

\* f with branch b set to v
With(f, b, v) == (b :> v) @@ f

TargetLine(b) == TargetKey \o <<":", " ">> \o b

Ev(step, ok) == [step |-> step, ok |-> ok]

\* Rig layouts and settings a behaviour may start from.
RigSetups ==
  { [bare |-> TRUE,  test |-> MakeTest,  template |-> EmptyStr],
    [bare |-> TRUE,  test |-> EmptyStr, template |-> UserTemplate],
    [bare |-> FALSE, test |-> MakeTest,  template |-> EmptyStr] }

\* Issue-store contents a behaviour may start from: the status of the epic's
\* child, and the status and target of the merge request.
StoreSetups ==
  { [child |-> "open",   mr |-> "open",   target |-> BuildIntegrationBranchName(EmptyStr, E1)],
    [child |-> "open",   mr |-> "closed", target |-> BuildIntegrationBranchName(EmptyStr, E1)],
    [child |-> "closed", mr |-> "open",   target |-> Main] }

Init ==
  /\ \E s \in StoreSetups :
       issues = (E1 :> [type |-> "epic", status |-> "open", parent |-> EmptyStr,
                        description |-> OriginalText, labels |-> {}])
             @@ (T1 :> [type |-> "task", status |-> s.child, parent |-> E1,
                        description |-> EmptyStr, labels |-> {}])
             @@ (M1 :> [type |-> "task", status |-> s.mr, parent |-> EmptyStr,
                        description |-> TargetLine(s.target), labels |-> {MRLabel}])
  /\ \E where \in {"nowhere", "origin", "everywhere"} :
       LET b == BuildIntegrationBranchName(EmptyStr, E1)
           base == (Main :> {"b"}) @@ (Dev :> {"b"})
       IN  /\ origin = IF where = "nowhere" THEN base ELSE With(base, b, {"b", "w"})
           /\ local = IF where = "everywhere" THEN With(base, b, {"b", "w"}) ELSE base
           /\ track = IF where = "everywhere" THEN With(base, b, {"b", "w"}) ELSE base
  /\ wt = NoWorktree
  /\ \E r \in RigSetups :
       /\ bareRepo = r.bare
       /\ testCommand = r.test
       /\ rigTemplate = r.template
  /\ created = {}
  /\ started = 0
  /\ inv = [p \in Procs |-> Idle]

\* bd.Show: the issue, or not found
Known(id) == id \in DOMAIN issues

\* Variant of ListMRs that selects by the type field.
ListMRs_ByType(status) ==
  {i \in DOMAIN issues :
     /\ issues[i].type = "merge-request"
     /\ (status = "" \/ issues[i].status = status)}

\* bd.List(ListOptions{Type: "merge-request", Status: status}): the issues that
\* carry the merge-request label, of the given status ("" is every status)
ListMRs(status) ==
  {i \in DOMAIN issues :
     /\ MRLabel \in issues[i].labels
     /\ (status = "" \/ issues[i].status = status)}

filterMRsByTarget(mrs, targetBranch) ==
  {i \in mrs : GetField(issues[i].description, TargetKey) = targetBranch}

findOpenMRsForIntegration(targetBranch) ==
  filterMRsByTarget(ListMRs("open"), targetBranch)

\* g.Fetch("origin"): every branch of origin is copied to its tracking ref
FetchAll == [n \in DOMAIN track \cup DOMAIN origin |->
               IF n \in DOMAIN origin THEN origin[n] ELSE track[n]]

\* Variant: a return that never runs the deferred cleanup.
Return_NoDefer(me, result, err, ev, deferred) ==
  [me EXCEPT !.result = result, !.err = err, !.events = me.events \o ev, !.pc = "done"]

\* A command returns: before the worktree exists it returns at once, afterwards
\* the deferred cleanup runs first.
Return(me, result, err, ev, deferred) ==
  [me EXCEPT !.result = result, !.err = err, !.events = me.events \o ev,
             !.pc = IF deferred THEN "l_cleanup" ELSE "done"]

Step(me, pc, ev) == [me EXCEPT !.pc = pc, !.events = me.events \o ev]


(***************************************************************************)
(* gt mq integration land <epic> [--force] [--skip-tests] [--dry-run]      *)
(***************************************************************************)
World == <<issues, local, track, origin, wt>>

\* Variant: the push before the diff verification.
LandOrder_PushFirst ==
  <<"l_show", "l_exists", "l_remote", "l_fetchbranch", "l_audit", "l_fetch",
    "l_worktree", "l_pull", "l_merge", "l_test", "l_push", "l_verify",
    "l_delremote", "l_dellocal", "l_close", "l_cleanup">>

\* The statements of runMqIntegrationLand in program order.
LandOrder ==
  <<"l_show", "l_exists", "l_remote", "l_fetchbranch", "l_audit", "l_fetch",
    "l_worktree", "l_pull", "l_merge", "l_test", "l_verify", "l_push",
    "l_delremote", "l_dellocal", "l_close", "l_cleanup">>

\* The statement that follows pc in program order.
After(pc) ==
  LandOrder[(CHOOSE i \in 1..Len(LandOrder) : LandOrder[i] = pc) + 1]

\* Variant: the cleanup deletes the branch that was landed on.
LandDeleteRef_Target(me) == me.targetBranch

\* The ref the cleanup after the push deletes, remotely and locally.
LandDeleteRef(me) == me.branchName
Rig == <<bareRepo, testCommand, rigTemplate>>

LandStartWith(self, ids, forces, skips, dries, limit) ==
  /\ inv[self].pc = "idle"
  /\ started < limit
  /\ \E id \in ids, f \in forces, st \in skips, dr \in dries :
       inv' = [inv EXCEPT ![self] =
                 [Idle EXCEPT !.op = "land", !.pc = "l_show", !.epicID = id,
                              !.force = f, !.skipTests = st, !.dryRun = dr,
                              !.pre = Snapshot]]
  /\ started' = started + 1
  /\ UNCHANGED <<World, Rig, created>>

LandStart(self) ==
  LandStartWith(self, {E1, T1, MissingID}, BOOLEAN, BOOLEAN, BOOLEAN, MaxInvocations)

\* 1. Verify epic exists, is an epic; branch and base from its description.
LandShow(self) ==
  LET me == inv[self] IN
  /\ me.pc = "l_show"
  /\ \E r \in Outcomes :
       inv' = [inv EXCEPT ![self] =
                 IF r = "err" THEN Return(me, "err", "fetching-epic", << >>, FALSE)
                 ELSE IF ~Known(me.epicID) THEN Return(me, "err", "not-found", << >>, FALSE)
                 ELSE IF issues[me.epicID].type # "epic"
                   THEN Return(me, "err", "not-an-epic", << >>, FALSE)
                 ELSE LET d  == issues[me.epicID].description
                          bn == GetIntegrationBranchField(d)
                          tb == GetBaseBranchField(d)
                      IN  [me EXCEPT !.pc = After("l_show"), !.epicDesc = d,
                             !.branchName = IF bn = EmptyStr
                                 THEN BuildIntegrationBranchName(DefaultIntegrationBranchTemplate, me.epicID)
                                 ELSE bn,
                             !.targetBranch = IF tb = EmptyStr THEN Main ELSE tb]]
  /\ UNCHANGED <<World, Rig, created, started>>

\* 2. g.BranchExists(branchName)
LandBranchExists(self) ==
  LET me == inv[self] IN
  /\ me.pc = "l_exists"
  /\ \E r \in Outcomes :
       inv' = [inv EXCEPT ![self] =
                 IF r = "err" THEN Return(me, "err", "checking-branch", << >>, FALSE)
                 ELSE IF me.branchName \in DOMAIN local THEN Step(me, "l_audit", << >>)
                 ELSE Step(me, After("l_exists"), << >>)]
  /\ UNCHANGED <<World, Rig, created, started>>

\* g.RemoteBranchExists("origin", branchName), when the branch is not local
LandRemoteExists(self) ==
  LET me == inv[self] IN
  /\ me.pc = "l_remote"
  /\ \E r \in Outcomes :
       inv' = [inv EXCEPT ![self] =
                 IF r = "err" THEN Return(me, "err", "checking-remote", << >>, FALSE)
                 ELSE IF me.branchName \notin DOMAIN origin
                   THEN Return(me, "err", "branch-missing", << >>, FALSE)
                 ELSE Step(me, After("l_remote"), << >>)]
  /\ UNCHANGED <<World, Rig, created, started>>

\* g.FetchBranch("origin", branchName): the branch is fetched into the rig repository
FetchBranch(branchName) == With(track, branchName, origin[branchName])

LandFetchBranch(self) ==
  LET me == inv[self] IN
  /\ me.pc = "l_fetchbranch"
  /\ \E r \in Outcomes :
       IF r = "ok" /\ me.branchName \in DOMAIN origin
         THEN /\ track' = FetchBranch(me.branchName)
              /\ inv' = [inv EXCEPT ![self] = Step(me, After("l_fetchbranch"), << >>)]
         ELSE /\ track' = track
              /\ inv' = [inv EXCEPT ![self] =
                           Return(me, "err", "fetching-branch", << >>, FALSE)]
  /\ UNCHANGED <<issues, local, origin, wt, Rig, created, started>>

\* 3. Open MRs targeting the branch; the dry run stops here.
LandAudit(self) ==
  LET me == inv[self]
      openMRs == findOpenMRsForIntegration(me.branchName)
  IN
  /\ me.pc = "l_audit"
  /\ \E r \in Outcomes :
       inv' = [inv EXCEPT ![self] =
                 IF r = "err" THEN Return(me, "err", "checking-mrs", << >>, FALSE)
                 ELSE IF openMRs # {} /\ ~me.force
                   THEN Return(me, "err", "pending-mrs", <<Ev("audit", FALSE)>>, FALSE)
                 ELSE IF me.dryRun
                   THEN Return(me, "ok", "none", <<Ev("audit", TRUE)>>, FALSE)
                 ELSE Step(me, After("l_audit"), <<Ev("audit", TRUE)>>)]
  /\ UNCHANGED <<World, Rig, created, started>>

\* g.Fetch("origin") before the worktree is created
LandFetch(self) ==
  LET me == inv[self] IN
  /\ me.pc = "l_fetch"
  /\ \E r \in Outcomes :
       IF r = "ok"
         THEN /\ track' = FetchAll
              /\ inv' = [inv EXCEPT ![self] = Step(me, After("l_fetch"), <<Ev("fetch", TRUE)>>)]
         ELSE /\ track' = track
              /\ inv' = [inv EXCEPT ![self] =
                           Return(me, "err", "fetch", <<Ev("fetch", FALSE)>>, FALSE)]
  /\ UNCHANGED <<issues, local, origin, wt, Rig, created, started>>

\* bareGit.WorktreeRemove(landPath, true); os.RemoveAll(landPath), errors dropped:
\* "ok" removes registration and directory, "git" leaves the registration,
\* "all" leaves both.
TeardownOutcomes == {"ok", "git", "all"}

\* Variant: a teardown whose directory removal does nothing.
Teardown_KeepsDir(w, how) ==
  IF how = "ok" THEN [w EXCEPT !.reg = FALSE]
  ELSE IF how = "git" THEN [w EXCEPT !.dir = FALSE]
  ELSE w

Teardown(w, how) ==
  IF how = "ok" THEN NoWorktree
  ELSE IF how = "git" THEN [w EXCEPT !.dir = FALSE]
  ELSE w

\* createLandWorktree(rigPath, startBranch)
createLandWorktree(self, startBranch, stale, add) ==
  LET w1 == IF wt.dir THEN Teardown(wt, stale) ELSE wt
      canAdd == add = "ok" /\ ~w1.dir /\ startBranch \in DOMAIN local
  IN  IF ~bareRepo THEN [ok |-> FALSE, stale |-> wt, wt |-> wt]
      ELSE IF canAdd
        THEN [ok |-> TRUE, stale |-> w1, wt |-> [dir |-> TRUE, reg |-> TRUE, owner |-> self,
                                               branch |-> startBranch]]
      ELSE [ok |-> FALSE, stale |-> w1, wt |-> w1]

LandWorktree(self) ==
  LET me == inv[self] IN
  /\ me.pc = "l_worktree"
  /\ \E stale \in TeardownOutcomes, add \in Outcomes :
       LET res == createLandWorktree(self, me.targetBranch, stale, add) IN
       /\ wt' = res.wt
       /\ inv' = [inv EXCEPT ![self] =
                    LET cleaned == IF bareRepo /\ wt.dir
                                     THEN <<Ev("stale-cleanup", ~res.stale.dir)>> ELSE << >>
                    IN  IF res.ok
                          THEN Step(me, After("l_worktree"), cleaned \o <<Ev("worktree", TRUE)>>)
                          ELSE Return(me, "err",
                                      IF bareRepo THEN "worktree" ELSE "bare-repo-not-found",
                                      cleaned \o <<Ev("worktree", FALSE)>>, FALSE)]
  /\ UNCHANGED <<issues, local, track, origin, Rig, created, started>>

\* landGit.Pull("origin", targetBranch): failure is not fatal
LandPull(self) ==
  LET me == inv[self] IN
  /\ me.pc = "l_pull"
  /\ \E r \in Outcomes :
       IF r = "ok" /\ me.targetBranch \in DOMAIN origin
         THEN /\ local' = With(local, me.targetBranch,
                               local[me.targetBranch] \cup origin[me.targetBranch])
              /\ track' = With(track, me.targetBranch, origin[me.targetBranch])
              /\ inv' = [inv EXCEPT ![self] = Step(me, After("l_pull"), <<Ev("pull", TRUE)>>)]
         ELSE /\ UNCHANGED <<local, track>>
              /\ inv' = [inv EXCEPT ![self] = Step(me, After("l_pull"), <<Ev("pull", TRUE)>>)]
  /\ UNCHANGED <<issues, origin, wt, Rig, created, started>>

\* landGit.MergeNoFF("origin/"+branchName): the merge commit "m" joins both sides
MergeNoFF(base, branch) ==
  IF branch \subseteq base THEN base ELSE base \cup branch \cup {"m"}

\* Variant: a failed merge is left unaborted and the command goes on to the tests.
LandMerge_GoesOn(self) ==
  LET me == inv[self] IN
  /\ me.pc = "l_merge"
  /\ \E r \in Outcomes :
       IF r = "ok" /\ me.branchName \in DOMAIN track
         THEN /\ local' = With(local, me.targetBranch,
                               MergeNoFF(local[me.targetBranch], track[me.branchName]))
              /\ inv' = [inv EXCEPT ![self] = Step(me, After("l_merge"), <<Ev("merge", TRUE)>>)]
         ELSE /\ local' = local
              /\ inv' = [inv EXCEPT ![self] = Step(me, After("l_merge"), <<Ev("merge", FALSE)>>)]
  /\ UNCHANGED <<issues, track, origin, wt, Rig, created, started>>

\* 4. Merge the integration branch into the target; AbortMerge on failure.
LandMerge(self) ==
  LET me == inv[self] IN
  /\ me.pc = "l_merge"
  /\ \E r \in Outcomes :
       IF r = "ok" /\ me.branchName \in DOMAIN track
         THEN /\ local' = With(local, me.targetBranch,
                               MergeNoFF(local[me.targetBranch], track[me.branchName]))
              /\ inv' = [inv EXCEPT ![self] = Step(me, After("l_merge"), <<Ev("merge", TRUE)>>)]
         ELSE /\ local' = local
              /\ inv' = [inv EXCEPT ![self] =
                           Return(me, "err", "merge-conflict",
                                  <<Ev("merge", FALSE), Ev("abort", TRUE)>>, TRUE)]
  /\ UNCHANGED <<issues, track, origin, wt, Rig, created, started>>

\* getTestCommand(rigPath): merge_queue.test_command, "" when there is none
getTestCommand == testCommand

\* Variant: a failed test run is reported and the land goes on.
LandTest_FailureIsWarning(self) ==
  LET me == inv[self]
      testCmd == getTestCommand
  IN
  /\ me.pc = "l_test"
  /\ IF ~me.skipTests /\ testCmd # EmptyStr /\ Len(Fields(testCmd)) # 0
       THEN \E r \in Outcomes :
              inv' = [inv EXCEPT ![self] = Step(me, After("l_test"), <<Ev("test", r = "ok")>>)]
       ELSE inv' = [inv EXCEPT ![self] = Step(me, After("l_test"), << >>)]
  /\ UNCHANGED <<World, Rig, created, started>>

\* 5. Run tests (if configured and not skipped); runTestCommand returns nil
\* without running anything when the command has no fields.
LandTest(self) ==
  LET me == inv[self]
      testCmd == getTestCommand
  IN
  /\ me.pc = "l_test"
  /\ IF ~me.skipTests /\ testCmd # EmptyStr /\ Len(Fields(testCmd)) # 0
       THEN \E r \in Outcomes :
              inv' = [inv EXCEPT ![self] =
                        IF r = "ok" THEN Step(me, After("l_test"), <<Ev("test", TRUE)>>)
                        ELSE Return(me, "err", "tests-failed", <<Ev("test", FALSE)>>, TRUE)]
       ELSE inv' = [inv EXCEPT ![self] = Step(me, After("l_test"), << >>)]
  /\ UNCHANGED <<World, Rig, created, started>>

\* git diff --stat HEAD~1..HEAD in the worktree: output present, empty, or the
\* command fails.
DiffOutcomes == {"changes", "empty", "err"}

\* Variant: no guard.
EmptyMerge_Never(diff) == FALSE

\* verifyErr == nil && len(TrimSpace(diffOutput)) == 0
EmptyMerge(diff) == diff = "empty"

LandVerify(self) ==
  LET me == inv[self] IN
  /\ me.pc = "l_verify"
  /\ \E diff \in DiffOutcomes :
       inv' = [inv EXCEPT ![self] =
                 IF EmptyMerge(diff)
                   THEN Return([me EXCEPT !.diff = diff], "err", "empty-merge",
                               <<Ev("verify", FALSE)>>, TRUE)
                   ELSE Step([me EXCEPT !.diff = diff], After("l_verify"),
                             <<Ev("verify", diff = "changes")>>)]
  /\ UNCHANGED <<World, Rig, created, started>>

\* Push(remote, branch, force=false) succeeds only as a fast-forward of the remote.
CanPush(branch) ==
  /\ branch \in DOMAIN local
  /\ branch \in DOMAIN origin => origin[branch] \subseteq local[branch]

\* Variant: the push names main whatever the base branch of the epic.
LandPush_Main(self) ==
  LET me == inv[self] IN
  /\ me.pc = "l_push"
  /\ \E r \in Outcomes :
       IF r = "ok" /\ CanPush(Main)
         THEN /\ origin' = With(origin, Main, local[Main])
              /\ track' = With(track, Main, local[Main])
              /\ inv' = [inv EXCEPT ![self] = Step(me, After("l_push"), <<Ev("push", TRUE)>>)]
         ELSE /\ UNCHANGED <<origin, track>>
              /\ inv' = [inv EXCEPT ![self] =
                           Return(me, "err", "push-failed", <<Ev("push", FALSE)>>, TRUE)]
  /\ UNCHANGED <<issues, local, wt, Rig, created, started>>

\* Variant: the push is forced, the remote branch is overwritten.
LandPush_Forced(self) ==
  LET me == inv[self] IN
  /\ me.pc = "l_push"
  /\ \E r \in Outcomes :
       IF r = "ok" /\ me.targetBranch \in DOMAIN local
         THEN /\ origin' = With(origin, me.targetBranch, local[me.targetBranch])
              /\ track' = With(track, me.targetBranch, local[me.targetBranch])
              /\ inv' = [inv EXCEPT ![self] = Step(me, After("l_push"), <<Ev("push", TRUE)>>)]
         ELSE /\ UNCHANGED <<origin, track>>
              /\ inv' = [inv EXCEPT ![self] =
                           Return(me, "err", "push-failed", <<Ev("push", FALSE)>>, TRUE)]
  /\ UNCHANGED <<issues, local, wt, Rig, created, started>>

\* 6. Push the target branch to origin
LandPush(self) ==
  LET me == inv[self] IN
  /\ me.pc = "l_push"
  /\ \E r \in Outcomes :
       IF r = "ok" /\ CanPush(me.targetBranch)
         THEN /\ origin' = With(origin, me.targetBranch, local[me.targetBranch])
              /\ track' = With(track, me.targetBranch, local[me.targetBranch])
              /\ inv' = [inv EXCEPT ![self] = Step(me, After("l_push"), <<Ev("push", TRUE)>>)]
         ELSE /\ UNCHANGED <<origin, track>>
              /\ inv' = [inv EXCEPT ![self] =
                           Return(me, "err", "push-failed", <<Ev("push", FALSE)>>, TRUE)]
  /\ UNCHANGED <<issues, local, wt, Rig, created, started>>

\* Variant of LandDeleteRemote in which a failed delete ends the land with an error.
LandDeleteRemote_Fatal(self) ==
  LET me == inv[self] IN
  /\ me.pc = "l_delremote"
  /\ \E r \in Outcomes :
       IF r = "ok" /\ LandDeleteRef(me) \in DOMAIN origin
         THEN /\ origin' = Without(origin, LandDeleteRef(me))
              /\ track' = Without(track, LandDeleteRef(me))
              /\ inv' = [inv EXCEPT ![self] = Step(me, After("l_delremote"), <<Ev("delete-remote", TRUE)>>)]
         ELSE /\ UNCHANGED <<origin, track>>
              /\ inv' = [inv EXCEPT ![self] =
                           Return(me, "err", "delete-failed", <<Ev("delete-remote", FALSE)>>, TRUE)]
  /\ UNCHANGED <<issues, local, wt, Rig, created, started>>

\* 7. g.DeleteRemoteBranch("origin", branchName): failure is a warning
LandDeleteRemote(self) ==
  LET me == inv[self] IN
  /\ me.pc = "l_delremote"
  /\ \E r \in Outcomes :
       IF r = "ok" /\ LandDeleteRef(me) \in DOMAIN origin
         THEN /\ origin' = Without(origin, LandDeleteRef(me))
              /\ track' = Without(track, LandDeleteRef(me))
              /\ inv' = [inv EXCEPT ![self] = Step(me, After("l_delremote"), <<Ev("delete-remote", TRUE)>>)]
         ELSE /\ UNCHANGED <<origin, track>>
              /\ inv' = [inv EXCEPT ![self] = Step(me, After("l_delremote"), <<Ev("delete-remote", FALSE)>>)]
  /\ UNCHANGED <<issues, local, wt, Rig, created, started>>

\* g.DeleteBranch(branchName, true): failure is a warning
LandDeleteLocal(self) ==
  LET me == inv[self] IN
  /\ me.pc = "l_dellocal"
  /\ \E r \in Outcomes :
       IF r = "ok" /\ LandDeleteRef(me) \in DOMAIN local
         THEN /\ local' = Without(local, LandDeleteRef(me))
              /\ inv' = [inv EXCEPT ![self] = Step(me, After("l_dellocal"), <<Ev("delete-local", TRUE)>>)]
         ELSE /\ local' = local
              /\ inv' = [inv EXCEPT ![self] = Step(me, After("l_dellocal"), <<Ev("delete-local", FALSE)>>)]
  /\ UNCHANGED <<issues, track, origin, wt, Rig, created, started>>

\* 8. bd.Close(epicID): failure is a warning; the command returns nil
LandClose(self) ==
  LET me == inv[self] IN
  /\ me.pc = "l_close"
  /\ \E r \in Outcomes :
       IF r = "ok"
         THEN /\ issues' = [issues EXCEPT ![me.epicID].status = "closed"]
              /\ inv' = [inv EXCEPT ![self] = Return(me, "ok", "none", <<Ev("close", TRUE)>>, TRUE)]
         ELSE /\ issues' = issues
              /\ inv' = [inv EXCEPT ![self] = Return(me, "ok", "none", <<Ev("close", FALSE)>>, TRUE)]
  /\ UNCHANGED <<local, track, origin, wt, Rig, created, started>>

\* defer cleanup(): runs when the command returns after the worktree was created
LandCleanup(self) ==
  LET me == inv[self] IN
  /\ me.pc = "l_cleanup"
  /\ \E how \in TeardownOutcomes :
       /\ wt' = Teardown(wt, how)
       /\ inv' = [inv EXCEPT ![self] = Step(me, "done", <<Ev("teardown", how = "ok")>>)]
  /\ UNCHANGED <<issues, local, track, origin, Rig, created, started>>

\* The command has returned; the process is free for the next command.
Finish(self) ==
  /\ inv[self].pc = "done"
  /\ inv' = [inv EXCEPT ![self] = Idle]
  /\ UNCHANGED <<World, Rig, created, started>>

(***************************************************************************)
(* gt mq integration create <epic> [--branch TEMPLATE] [--base-branch NAME]*)
(***************************************************************************)
\* Priority: CLI flag > rig config > default
getIntegrationBranchTemplate(settingsTemplate, cliOverride) ==
  IF cliOverride # EmptyStr THEN cliOverride
  ELSE IF settingsTemplate # EmptyStr THEN settingsTemplate
  ELSE DefaultIntegrationBranchTemplate

\* baseBranch = "origin/" + TrimPrefix(flag, "origin/"); shown without "origin/"
BaseBranchDisplay(flag) ==
  IF flag = EmptyStr THEN Main
  ELSE TrimPrefix(OriginSlash \o TrimPrefix(flag, OriginSlash), OriginSlash)

\* gt mq integration create <epic> [--branch t] [--base-branch b]
CreateStartWith(self, ids, templates, bases) ==
  /\ inv[self].pc = "idle"
  /\ started < MaxInvocations
  /\ \E id \in ids, t \in templates, b \in bases :
       inv' = [inv EXCEPT ![self] =
                 [Idle EXCEPT !.op = "create", !.pc = "c_show", !.epicID = id,
                              !.tmpl = t, !.base = b, !.pre = Snapshot]]
  /\ started' = started + 1
  /\ UNCHANGED <<World, Rig, created>>

CreateStart(self) ==
  CreateStartWith(self, {E1, T1, MissingID}, {EmptyStr, FeatureTemplate, LockTemplate},
                  {EmptyStr, Dev, OriginSlash \o Dev})

\* 1. Verify the epic; build and validate the branch name.
CreateShow(self) ==
  LET me == inv[self]
      bn == BuildIntegrationBranchName(
              getIntegrationBranchTemplate(rigTemplate, me.tmpl), me.epicID)
  IN
  /\ me.pc = "c_show"
  /\ \E r \in Outcomes :
       inv' = [inv EXCEPT ![self] =
                 IF r = "err" THEN Return(me, "err", "fetching-epic", << >>, FALSE)
                 ELSE IF ~Known(me.epicID) THEN Return(me, "err", "not-found", << >>, FALSE)
                 ELSE IF issues[me.epicID].type # "epic"
                   THEN Return(me, "err", "not-an-epic", << >>, FALSE)
                 ELSE IF ~validateBranchName(bn)
                   THEN Return(me, "err", "invalid-name", << >>, FALSE)
                 ELSE [me EXCEPT !.pc = "c_exists", !.branchName = bn,
                                 !.epicDesc = issues[me.epicID].description,
                                 !.targetBranch = BaseBranchDisplay(me.base)]]
  /\ UNCHANGED <<World, Rig, created, started>>

\* g.BranchExists(branchName): an existing local branch is rejected
CreateBranchExists(self) ==
  LET me == inv[self] IN
  /\ me.pc = "c_exists"
  /\ \E r \in Outcomes :
       inv' = [inv EXCEPT ![self] =
                 IF r = "err" THEN Return(me, "err", "checking-branch", << >>, FALSE)
                 ELSE IF me.branchName \in DOMAIN local
                   THEN Return(me, "err", "exists-locally", << >>, FALSE)
                 ELSE Step(me, "c_remote", << >>)]
  /\ UNCHANGED <<World, Rig, created, started>>

\* Variant: the answer of the probe is not looked at.
CreateRemoteExists_Ignored(self) ==
  LET me == inv[self] IN
  /\ me.pc = "c_remote"
  /\ \E r \in Outcomes :
       inv' = [inv EXCEPT ![self] = Step(me, "c_fetch", <<Ev("remote-probe", r = "ok")>>)]
  /\ UNCHANGED <<World, Rig, created, started>>

\* g.RemoteBranchExists: an error is only logged, remoteExists stays false
CreateRemoteExists(self) ==
  LET me == inv[self] IN
  /\ me.pc = "c_remote"
  /\ \E r \in Outcomes :
       inv' = [inv EXCEPT ![self] =
                 IF r = "ok" /\ me.branchName \in DOMAIN origin
                   THEN Return(me, "err", "exists-on-origin", << >>, FALSE)
                 ELSE Step(me, "c_fetch", <<Ev("remote-probe", r = "ok")>>)]
  /\ UNCHANGED <<World, Rig, created, started>>

\* Variant: a fetch whose failure is only logged.
CreateFetch_BestEffort(self) ==
  LET me == inv[self] IN
  /\ me.pc = "c_fetch"
  /\ \E r \in Outcomes :
       /\ track' = IF r = "ok" THEN FetchAll ELSE track
       /\ inv' = [inv EXCEPT ![self] = Step(me, "c_branch", <<Ev("fetch", r = "ok")>>)]
  /\ UNCHANGED <<issues, local, origin, wt, Rig, created, started>>

\* g.Fetch("origin"): an error is returned
CreateFetch(self) ==
  LET me == inv[self] IN
  /\ me.pc = "c_fetch"
  /\ \E r \in Outcomes :
       IF r = "ok"
         THEN /\ track' = FetchAll
              /\ inv' = [inv EXCEPT ![self] = Step(me, "c_branch", <<Ev("fetch", TRUE)>>)]
         ELSE /\ track' = track
              /\ inv' = [inv EXCEPT ![self] =
                           Return(me, "err", "fetch", <<Ev("fetch", FALSE)>>, FALSE)]
  /\ UNCHANGED <<issues, local, origin, wt, Rig, created, started>>

\* 2. g.CreateBranchFrom(branchName, "origin/"+base)
CreateBranch(self) ==
  LET me == inv[self] IN
  /\ me.pc = "c_branch"
  /\ \E r \in Outcomes :
       IF r = "ok" /\ me.targetBranch \in DOMAIN track /\ me.branchName \notin DOMAIN local
         THEN /\ local' = With(local, me.branchName, track[me.targetBranch])
              /\ inv' = [inv EXCEPT ![self] = Step(me, "c_push", <<Ev("branch", TRUE)>>)]
         ELSE /\ local' = local
              /\ inv' = [inv EXCEPT ![self] =
                           Return(me, "err", "creating-branch", <<Ev("branch", FALSE)>>, FALSE)]
  /\ UNCHANGED <<issues, track, origin, wt, Rig, created, started>>

\* Variant: the push is forced, the remote branch is set whatever it held.
CreatePush_Forced(self) ==
  LET me == inv[self] IN
  /\ me.pc = "c_push"
  /\ \E r \in Outcomes, del \in Outcomes :
       IF r = "ok" /\ me.branchName \in DOMAIN local
         THEN /\ origin' = With(origin, me.branchName, local[me.branchName])
              /\ track' = With(track, me.branchName, local[me.branchName])
              /\ local' = local
              /\ inv' = [inv EXCEPT ![self] = Step(me, "c_meta", <<Ev("push", TRUE)>>)]
         ELSE /\ UNCHANGED <<origin, track>>
              /\ local' = IF del = "ok" THEN Without(local, me.branchName) ELSE local
              /\ inv' = [inv EXCEPT ![self] =
                           Return(me, "err", "push-failed",
                                  <<Ev("push", FALSE), Ev("delete-local", del = "ok")>>, FALSE)]
  /\ UNCHANGED <<issues, wt, Rig, created, started>>

\* Variant: a failed push returns without touching the local branch.
CreatePush_KeepsBranch(self) ==
  LET me == inv[self] IN
  /\ me.pc = "c_push"
  /\ \E r \in Outcomes :
       IF r = "ok" /\ me.branchName \in DOMAIN local
                   /\ (me.branchName \in DOMAIN origin =>
                        origin[me.branchName] \subseteq local[me.branchName])
         THEN /\ origin' = With(origin, me.branchName, local[me.branchName])
              /\ track' = With(track, me.branchName, local[me.branchName])
              /\ inv' = [inv EXCEPT ![self] = Step(me, "c_meta", <<Ev("push", TRUE)>>)]
         ELSE /\ UNCHANGED <<origin, track>>
              /\ inv' = [inv EXCEPT ![self] =
                           Return(me, "err", "push-failed", <<Ev("push", FALSE)>>, FALSE)]
  /\ UNCHANGED <<issues, local, wt, Rig, created, started>>

\* 3. g.Push("origin", branchName, false); on failure the local branch is
\* deleted, best effort.
CreatePush(self) ==
  LET me == inv[self] IN
  /\ me.pc = "c_push"
  /\ \E r \in Outcomes, del \in Outcomes :
       IF r = "ok" /\ CanPush(me.branchName)
         THEN /\ origin' = With(origin, me.branchName, local[me.branchName])
              /\ track' = With(track, me.branchName, local[me.branchName])
              /\ local' = local
              /\ inv' = [inv EXCEPT ![self] = Step(me, "c_meta", <<Ev("push", TRUE)>>)]
         ELSE /\ UNCHANGED <<origin, track>>
              /\ local' = IF del = "ok" THEN Without(local, me.branchName) ELSE local
              /\ inv' = [inv EXCEPT ![self] =
                           Return(me, "err", "push-failed",
                                  <<Ev("push", FALSE), Ev("delete-local", del = "ok")>>, FALSE)]
  /\ UNCHANGED <<issues, wt, Rig, created, started>>

\* Variant: only the base field is written.
CreateDescription_BaseOnly(description, branchName, baseFlag) ==
  IF baseFlag # EmptyStr THEN AddBaseBranchField(description, BaseBranchDisplay(baseFlag))
  ELSE description

\* The description Create writes back: the branch field, and the base field
\* when --base-branch was given.
CreateDescription(description, branchName, baseFlag) ==
  LET d == AddIntegrationBranchField(description, branchName)
  IN  IF baseFlag # EmptyStr THEN AddBaseBranchField(d, BaseBranchDisplay(baseFlag)) ELSE d

\* 4. Store the branch in the epic description; an update error is a warning.
CreateMeta(self) ==
  LET me == inv[self]
      newDesc == CreateDescription(me.epicDesc, me.branchName, me.base)
  IN
  /\ me.pc = "c_meta"
  /\ \E r \in Outcomes :
       IF newDesc # me.epicDesc /\ r = "ok"
         THEN /\ issues' = [issues EXCEPT ![me.epicID].description = newDesc]
              /\ inv' = [inv EXCEPT ![self] = Return(me, "ok", "none", <<Ev("update", TRUE)>>, FALSE)]
         ELSE /\ issues' = issues
              /\ inv' = [inv EXCEPT ![self] =
                           Return(me, "ok", "none", <<Ev("update", newDesc = me.epicDesc)>>, FALSE)]
  /\ created' = created \cup {<<me.epicID, me.branchName>>}
  /\ UNCHANGED <<local, track, origin, wt, Rig, started>>

\* The statements of runMqIntegrationCreate after the arguments are read.
CreateSteps(self) ==
  \/ CreateShow(self) \/ CreateBranchExists(self)
  \/ CreateRemoteExists(self) \/ CreateFetch(self) \/ CreateBranch(self)
  \/ CreatePush(self) \/ CreateMeta(self)

Create(self) == CreateStart(self) \/ CreateSteps(self)

LandSteps(self) ==
  \/ LandShow(self) \/ LandBranchExists(self)
  \/ LandRemoteExists(self) \/ LandFetchBranch(self) \/ LandAudit(self)
  \/ LandFetch(self) \/ LandWorktree(self) \/ LandPull(self) \/ LandMerge(self)
  \/ LandTest(self) \/ LandVerify(self) \/ LandPush(self) \/ LandDeleteRemote(self)
  \/ LandDeleteLocal(self) \/ LandClose(self) \/ LandCleanup(self)

Land(self) == LandStart(self) \/ LandSteps(self)

Next == Create("operator") \/ Land("operator") \/ Finish("operator")

Spec == Init /\ [][Next]_vars

(***************************************************************************)
(* Create on its own, over every spelling of its flags.                    *)
(***************************************************************************)
\* Values of --base-branch: not given, the default branch with and without
\* its remote, another branch with and without its remote.
BaseFlags == {EmptyStr, Main, OriginSlash \o Main, Dev, OriginSlash \o Dev}

\* Values of --branch.
BranchFlags == {EmptyStr, FeatureTemplate, LockTemplate}

CreateStartAny(self) ==
  CreateStartWith(self, {E1, T1, MissingID}, BranchFlags, BaseFlags)

NextCreate ==
  \/ CreateStartAny("operator") \/ CreateSteps("operator") \/ Finish("operator")

SpecCreate == Init /\ [][NextCreate]_vars

(***************************************************************************)
(* MR target resolver: beads.DetectIntegrationBranch(bd, checker, issueID) *)
(***************************************************************************)
\* Parent links the resolver follows at most.
MaxDepth == 10

\* Longest parent chain in the issue graphs the resolver is run on.
MaxChain == 12

\* Calls of the resolver in one behaviour.
MaxResolves == 1

NodeDigits == <<"0","1","2","3","4","5","6","7","8","9","a","b","c","d">>

\* Id of the issue i parent links above the origin issue.
Node(i) == <<"g", "-", NodeDigits[i + 1]>>

\* The branch an epic names in its description, when it names one.
NamedBranch(id) == BuildIntegrationBranchName(FeatureTemplate, id)

\* What an epic of the graph looks like: whether its description names the
\* branch, and where the branch it leads to exists.
EpicKinds == [field : BOOLEAN, where : {"local", "origin", "nowhere"}]

\* The resolver's candidate for an epic: the stored name, else the default name.
Candidate(id, description) ==
  IF GetIntegrationBranchField(description) # EmptyStr
    THEN GetIntegrationBranchField(description)
    ELSE BuildIntegrationBranchName(EmptyStr, id)

\* A chain of n issues, each the parent of the one below; the top has no
\* parent, or the origin issue as parent (a cycle), or a parent the store
\* does not have. One issue e1 may be an epic of kind k; the top may be a
\* second epic whose named branch exists locally.
ChainGraph(n, top, e1, k, second) ==
  [id \in {Node(i) : i \in 0..(n - 1)} |->
     LET i == CHOOSE j \in 0..(n - 1) : Node(j) = id
         isEpic == i = e1 \/ (second /\ i = n - 1)
         named  == IF i = e1 THEN k.field ELSE TRUE
     IN  [type |-> IF isEpic THEN "epic" ELSE "task",
          status |-> "open",
          parent |-> IF i < n - 1 THEN Node(i + 1)
                     ELSE IF top = "cycle" THEN Node(0)
                     ELSE IF top = "missing" THEN MissingID
                     ELSE EmptyStr,
          description |-> IF isEpic /\ named
                            THEN AddIntegrationBranchField(OriginalText, NamedBranch(id))
                            ELSE OriginalText,
          labels |-> {}]]

\* The branches of the graph's epics, by where they exist.
ChainBranches(n, e1, k, second, place) ==
  LET g == ChainGraph(n, "none", e1, k, second) IN
  {Candidate(Node(i), g[Node(i)].description) :
     i \in {j \in 0..(n - 1) :
              \/ j = e1 /\ k.where = place
              \/ second /\ j = n - 1 /\ j # e1 /\ place = "local"}}

InitResolve ==
  /\ \E n \in 1..MaxChain, top \in {"none", "cycle", "missing"},
        e1 \in -1..(MaxChain - 1), k \in EpicKinds, second \in BOOLEAN :
       /\ e1 < n
       /\ e1 = -1 => (k = [field |-> FALSE, where |-> "nowhere"])
       /\ issues = ChainGraph(n, top, e1, k, second)
       /\ local = [b \in {Main} \cup ChainBranches(n, e1, k, second, "local") |-> {"b"}]
       /\ origin = [b \in {Main} \cup ChainBranches(n, e1, k, second, "local")
                            \cup ChainBranches(n, e1, k, second, "origin") |-> {"b"}]
       /\ track = [b \in {Main} |-> {"b"}]
  /\ wt = NoWorktree
  /\ bareRepo = TRUE /\ testCommand = EmptyStr /\ rigTemplate = EmptyStr
  /\ created = {}
  /\ started = 0
  /\ inv = [p \in Procs |-> Idle]

\* DetectIntegrationBranch(bd, checker, issueID) is called on the origin issue.
DetectStart(self) ==
  /\ inv[self].pc = "idle"
  /\ started < MaxResolves
  /\ \E id \in {Node(0), MissingID} :
       inv' = [inv EXCEPT ![self] =
                 [Idle EXCEPT !.op = "resolve", !.pc = "d_show", !.epicID = id,
                              !.current = id, !.depth = 0, !.pre = Snapshot]]
  /\ started' = started + 1
  /\ UNCHANGED <<World, Rig, created>>

\* Variant: the walk goes one parent link further.
DetectShow_OneMore(self) ==
  LET me == inv[self] IN
  /\ me.pc = "d_show"
  /\ \E r \in Outcomes :
       inv' = [inv EXCEPT ![self] =
                 IF me.depth > MaxDepth
                   THEN Return([me EXCEPT !.branchName = EmptyStr], "ok", "none", << >>, FALSE)
                 ELSE IF r = "err" \/ ~Known(me.current)
                   THEN Return([me EXCEPT !.branchName = EmptyStr], "err", "looking-up-issue",
                               <<Ev("load", FALSE)>>, FALSE)
                 ELSE IF issues[me.current].type = "epic"
                   THEN Step([me EXCEPT !.branchName =
                                Candidate(me.current, issues[me.current].description)],
                             "d_local", <<Ev("load", TRUE)>>)
                 ELSE Step(me, "d_parent", <<Ev("load", TRUE)>>)]
  /\ UNCHANGED <<World, Rig, created, started>>

\* for depth < maxDepth: bd.Show(current); a failure to load is returned
DetectShow(self) ==
  LET me == inv[self] IN
  /\ me.pc = "d_show"
  /\ \E r \in Outcomes :
       inv' = [inv EXCEPT ![self] =
                 IF me.depth >= MaxDepth
                   THEN Return([me EXCEPT !.branchName = EmptyStr], "ok", "none", << >>, FALSE)
                 ELSE IF r = "err" \/ ~Known(me.current)
                   THEN Return([me EXCEPT !.branchName = EmptyStr], "err", "looking-up-issue",
                               <<Ev("load", FALSE)>>, FALSE)
                 ELSE IF issues[me.current].type = "epic"
                   THEN Step([me EXCEPT !.branchName =
                                Candidate(me.current, issues[me.current].description)],
                             "d_local", <<Ev("load", TRUE)>>)
                 ELSE Step(me, "d_parent", <<Ev("load", TRUE)>>)]
  /\ UNCHANGED <<World, Rig, created, started>>

\* Variant: the candidate of the first epic is returned unverified.
DetectLocal_Unverified(self) ==
  LET me == inv[self] IN
  /\ me.pc = "d_local"
  /\ \E r \in Outcomes :
       inv' = [inv EXCEPT ![self] =
                 IF r = "err"
                   THEN Return([me EXCEPT !.branchName = EmptyStr], "err",
                               "checking-local-branch", <<Ev("local-check", FALSE)>>, FALSE)
                 ELSE Return(me, "ok", "none", <<Ev("local-check", TRUE)>>, FALSE)]
  /\ UNCHANGED <<World, Rig, created, started>>

\* checker.BranchExists(candidate): an error is fatal
DetectLocal(self) ==
  LET me == inv[self] IN
  /\ me.pc = "d_local"
  /\ \E r \in Outcomes :
       inv' = [inv EXCEPT ![self] =
                 IF r = "err"
                   THEN Return([me EXCEPT !.branchName = EmptyStr], "err",
                               "checking-local-branch", <<Ev("local-check", FALSE)>>, FALSE)
                 ELSE IF me.branchName \in DOMAIN local
                   THEN Return(me, "ok", "none", <<Ev("local-check", TRUE)>>, FALSE)
                 ELSE Step(me, "d_remote", <<Ev("local-check", TRUE)>>)]
  /\ UNCHANGED <<World, Rig, created, started>>

\* Variant: an error of the remote check is returned.
DetectRemote_ErrorFatal(self) ==
  LET me == inv[self] IN
  /\ me.pc = "d_remote"
  /\ \E r \in Outcomes :
       inv' = [inv EXCEPT ![self] =
                 IF r = "err"
                   THEN Return([me EXCEPT !.branchName = EmptyStr], "err",
                               "checking-remote-branch", <<Ev("remote-check", FALSE)>>, FALSE)
                 ELSE IF me.branchName \in DOMAIN origin
                   THEN Return(me, "ok", "none", <<Ev("remote-check", TRUE)>>, FALSE)
                 ELSE Step([me EXCEPT !.branchName = EmptyStr], "d_parent",
                           <<Ev("remote-check", TRUE)>>)]
  /\ UNCHANGED <<World, Rig, created, started>>

\* Variant: a branch that is only on origin is not accepted.
DetectRemote_LocalOnly(self) ==
  LET me == inv[self] IN
  /\ me.pc = "d_remote"
  /\ \E r \in Outcomes :
       inv' = [inv EXCEPT ![self] =
                 Step([me EXCEPT !.branchName = EmptyStr], "d_parent",
                      <<Ev("remote-check", r = "ok")>>)]
  /\ UNCHANGED <<World, Rig, created, started>>

\* checker.RemoteBranchExists("origin", candidate): an error skips the candidate
DetectRemote(self) ==
  LET me == inv[self] IN
  /\ me.pc = "d_remote"
  /\ \E r \in Outcomes :
       inv' = [inv EXCEPT ![self] =
                 IF r = "ok" /\ me.branchName \in DOMAIN origin
                   THEN Return(me, "ok", "none", <<Ev("remote-check", TRUE)>>, FALSE)
                 ELSE Step([me EXCEPT !.branchName = EmptyStr], "d_parent",
                           <<Ev("remote-check", r = "ok")>>)]
  /\ UNCHANGED <<World, Rig, created, started>>

\* Variant: the walk does not count its steps.
DetectParent_Uncounted(self) ==
  LET me == inv[self] IN
  /\ me.pc = "d_parent"
  /\ inv' = [inv EXCEPT ![self] =
               IF issues[me.current].parent = EmptyStr
                 THEN Return([me EXCEPT !.branchName = EmptyStr], "ok", "none", << >>, FALSE)
               ELSE [me EXCEPT !.pc = "d_show", !.current = issues[me.current].parent]]
  /\ UNCHANGED <<World, Rig, created, started>>

\* Move to the parent; without a parent the result is empty.
DetectParent(self) ==
  LET me == inv[self] IN
  /\ me.pc = "d_parent"
  /\ inv' = [inv EXCEPT ![self] =
               IF issues[me.current].parent = EmptyStr
                 THEN Return([me EXCEPT !.branchName = EmptyStr], "ok", "none", << >>, FALSE)
               ELSE [me EXCEPT !.pc = "d_show", !.current = issues[me.current].parent,
                               !.depth = me.depth + 1]]
  /\ UNCHANGED <<World, Rig, created, started>>

DetectIntegrationBranch(self) ==
  \/ DetectStart(self) \/ DetectShow(self) \/ DetectLocal(self)
  \/ DetectRemote(self) \/ DetectParent(self)

NextResolve == DetectIntegrationBranch("operator") \/ Finish("operator")

SpecResolve == InitResolve /\ [][NextResolve]_vars

\* A call of the resolver runs on until it returns.
DetectRuns(self) ==
  DetectShow(self) \/ DetectLocal(self) \/ DetectRemote(self) \/ DetectParent(self)

SpecResolveFair == SpecResolve /\ WF_vars(DetectRuns("operator"))

(***************************************************************************)
(* gt mq integration status <epic>                                         *)
(***************************************************************************)
\* Calls of the status command in one behaviour.
MaxStatusCalls == 1

T2 == <<"b", "-", "2">>
M2 == <<"m", "-", "2">>

\* Variant of isReadyToLand that accepts an epic without children.
isReadyToLand_NoChildren(aheadCount, childrenTotal, childrenClosed, pendingMRCount) ==
  /\ aheadCount > 0
  /\ childrenTotal = childrenClosed
  /\ pendingMRCount = 0

\* Ready when: has commits ahead of main, has children, all children closed,
\* no pending MRs.
isReadyToLand(aheadCount, childrenTotal, childrenClosed, pendingMRCount) ==
  /\ aheadCount > 0
  /\ childrenTotal > 0
  /\ childrenTotal = childrenClosed
  /\ pendingMRCount = 0

\* fields := beads.ParseMRFields(mr); fields != nil && fields.Target == targetBranch
TargetsBranch(id, targetBranch) ==
  GetField(issues[id].description, TargetKey) = targetBranch

\* The merge requests Status reports as merged: target matches, status closed.
MergedMRs(mrs, targetBranch) ==
  {i \in mrs : TargetsBranch(i, targetBranch) /\ issues[i].status = "closed"}

\* Variant of PendingMRs that counts only open merge requests.
PendingMRs_OpenOnly(mrs, targetBranch) ==
  {i \in mrs : TargetsBranch(i, targetBranch) /\ issues[i].status = "open"}

\* The merge requests Status reports as pending: target matches, any other status.
PendingMRs(mrs, targetBranch) ==
  {i \in mrs : TargetsBranch(i, targetBranch) /\ issues[i].status # "closed"}

\* bd.List(ListOptions{Parent: epicID, Status: "all"})
ListChildren(epicID) == {i \in DOMAIN issues : issues[i].parent = epicID}

\* g.CommitsAhead("main", ref): commits of ref that main does not have
CommitsAhead(refs, branch) == Cardinality(refs[branch] \ refs[Main])

\* Statuses and targets of a merge request in the issue store; "none" is a
\* description without MR fields.
MRKinds == [status : {"open", "in_progress", "closed"}, target : {"branch", "main", "none"}]

MRIssue(k, branch) ==
  [type |-> "task", status |-> k.status, parent |-> EmptyStr,
   description |-> IF k.target = "branch" THEN TargetLine(branch)
                   ELSE IF k.target = "main" THEN TargetLine(Main)
                   ELSE OriginalText,
   labels |-> {MRLabel}]

ChildIssue(status) ==
  [type |-> "task", status |-> status, parent |-> E1, description |-> EmptyStr, labels |-> {}]

InitStatus ==
  /\ \E named \in BOOLEAN,
        kids \in {<< >>, <<"closed">>, <<"open">>, <<"closed", "closed">>, <<"closed", "open">>},
        k1 \in MRKinds,
        k2 \in {k \in MRKinds : k.target = "branch"} \cup {[status |-> "none", target |-> "none"]} :
       LET desc == IF named THEN AddIntegrationBranchField(OriginalText, NamedBranch(E1))
                   ELSE OriginalText
           b == Candidate(E1, desc)
       IN  issues = (E1 :> [type |-> "epic", status |-> "open", parent |-> EmptyStr,
                            description |-> desc, labels |-> {}])
                 @@ (IF Len(kids) >= 1 THEN T1 :> ChildIssue(kids[1]) ELSE << >>)
                 @@ (IF Len(kids) >= 2 THEN T2 :> ChildIssue(kids[2]) ELSE << >>)
                 @@ (M1 :> MRIssue(k1, b))
                 @@ (IF k2.status # "none" THEN M2 :> MRIssue(k2, b) ELSE << >>)
  /\ \E where \in {"nowhere", "origin", "everywhere"}, work \in {{"b"}, {"b", "w"}} :
       LET b == Candidate(E1, issues[E1].description)
           base == (Main :> {"b"})
       IN  /\ where = "nowhere" => work = {"b"}
           /\ origin = IF where = "nowhere" THEN base ELSE With(base, b, work)
           /\ local = IF where = "everywhere" THEN With(base, b, work) ELSE base
           /\ track = base
  /\ wt = NoWorktree
  /\ bareRepo = TRUE /\ testCommand = EmptyStr /\ rigTemplate = EmptyStr
  /\ created = {}
  /\ started = 0
  /\ inv = [p \in Procs |-> Idle]

StatusStart(self) ==
  /\ inv[self].pc = "idle"
  /\ started < MaxStatusCalls
  /\ \E id \in {E1, MissingID} :
       inv' = [inv EXCEPT ![self] =
                 [Idle EXCEPT !.op = "status", !.pc = "s_show", !.epicID = id,
                              !.pre = Snapshot]]
  /\ started' = started + 1
  /\ UNCHANGED <<World, Rig, created>>

\* bd.Show(epicID); the branch name stored in the epic, else the default name
StatusShow(self) ==
  LET me == inv[self] IN
  /\ me.pc = "s_show"
  /\ \E r \in Outcomes :
       inv' = [inv EXCEPT ![self] =
                 IF r = "err" THEN Return(me, "err", "fetching-epic", << >>, FALSE)
                 ELSE IF ~Known(me.epicID) THEN Return(me, "err", "not-found", << >>, FALSE)
                 ELSE Step([me EXCEPT !.branchName =
                              Candidate(me.epicID, issues[me.epicID].description)],
                           "s_fetch", << >>)]
  /\ UNCHANGED <<World, Rig, created, started>>

\* g.Fetch("origin"): non-fatal
StatusFetch(self) ==
  LET me == inv[self] IN
  /\ me.pc = "s_fetch"
  /\ \E r \in Outcomes :
       /\ track' = IF r = "ok" THEN FetchAll ELSE track
       /\ inv' = [inv EXCEPT ![self] = Step(me, "s_exists", <<Ev("fetch", r = "ok")>>)]
  /\ UNCHANGED <<issues, local, origin, wt, Rig, created, started>>

\* localExists, _ := g.BranchExists; remoteExists, _ := g.RemoteBranchExists;
\* aheadCount from g.CommitsAhead("main", ref), 0 when it fails
StatusExists(self) ==
  LET me == inv[self] IN
  /\ me.pc = "s_exists"
  /\ \E rl \in Outcomes, rr \in Outcomes, ra \in Outcomes :
       LET localExists == rl = "ok" /\ me.branchName \in DOMAIN local
           remoteExists == rr = "ok" /\ me.branchName \in DOMAIN origin
           refs == IF localExists THEN local ELSE track
           aheadCount == IF ra = "ok" /\ me.branchName \in DOMAIN refs
                           THEN CommitsAhead(refs, me.branchName) ELSE 0
       IN  inv' = [inv EXCEPT ![self] =
                     IF ~localExists /\ ~remoteExists
                       THEN Return(me, "err", "branch-missing", << >>, FALSE)
                     ELSE Step([me EXCEPT !.out.ahead = aheadCount], "s_mrs",
                               <<Ev("ahead", ra = "ok" /\ me.branchName \in DOMAIN refs)>>)]
  /\ UNCHANGED <<World, Rig, created, started>>

\* bd.List of all merge requests, split by target and status
StatusMRs(self) ==
  LET me == inv[self] IN
  /\ me.pc = "s_mrs"
  /\ \E r \in Outcomes :
       inv' = [inv EXCEPT ![self] =
                 IF r = "err" THEN Return(me, "err", "querying-mrs", << >>, FALSE)
                 ELSE Step([me EXCEPT !.out.merged = MergedMRs(ListMRs(""), me.branchName),
                                      !.out.pending = PendingMRs(ListMRs(""), me.branchName)],
                           "s_children", << >>)]
  /\ UNCHANGED <<World, Rig, created, started>>

\* bd.List of the children (counts stay 0 when it fails); readiness; output
StatusChildren(self) ==
  LET me == inv[self] IN
  /\ me.pc = "s_children"
  /\ \E r \in Outcomes :
       LET children == IF r = "ok" THEN ListChildren(me.epicID) ELSE {}
           total == Cardinality(children)
           closed == Cardinality({c \in children : issues[c].status = "closed"})
       IN  inv' = [inv EXCEPT ![self] =
                     Return([me EXCEPT !.out.childrenTotal = total,
                                       !.out.childrenClosed = closed,
                                       !.out.ready =
                                         isReadyToLand(me.out.ahead, total, closed,
                                                       Cardinality(me.out.pending))],
                            "ok", "none", <<Ev("children", r = "ok")>>, FALSE)]
  /\ UNCHANGED <<World, Rig, created, started>>

Status(self) ==
  \/ StatusStart(self) \/ StatusShow(self) \/ StatusFetch(self)
  \/ StatusExists(self) \/ StatusMRs(self) \/ StatusChildren(self)

NextStatus == Status("operator") \/ Finish("operator")

SpecStatus == InitStatus /\ [][NextStatus]_vars

(***************************************************************************)
(* MR identification in Land's audit and in Status.                        *)
(***************************************************************************)
\* Land invocations in one behaviour of the audit specification.
MaxAudits == 1

\* An issue that may or may not be a merge request: its type field, whether
\* it carries the label, its status and its target.
MarkedKinds == [type : {"task", "merge-request"}, labelled : BOOLEAN,
                status : {"open", "closed"}, target : {"branch", "main"}]

MarkedIssue(k, branch) ==
  [type |-> k.type, status |-> k.status, parent |-> EmptyStr,
   description |-> TargetLine(IF k.target = "branch" THEN branch ELSE Main),
   labels |-> IF k.labelled THEN {MRLabel} ELSE {}]

InitAudit ==
  /\ \E k1 \in MarkedKinds, k2 \in {k \in MarkedKinds : k.target = "branch" /\ k.status = "open"} :
       LET b == BuildIntegrationBranchName(EmptyStr, E1)
       IN  issues = (E1 :> [type |-> "epic", status |-> "open", parent |-> EmptyStr,
                            description |-> OriginalText, labels |-> {}])
                 @@ (T1 :> ChildIssue("closed"))
                 @@ (M1 :> MarkedIssue(k1, b))
                 @@ (M2 :> MarkedIssue(k2, b))
  /\ \E where \in {"origin", "everywhere"} :
       LET b == BuildIntegrationBranchName(EmptyStr, E1)
           base == (Main :> {"b"})
       IN  /\ origin = With(base, b, {"b", "w"})
           /\ local = IF where = "everywhere" THEN With(base, b, {"b", "w"}) ELSE base
           /\ track = base
  /\ wt = NoWorktree
  /\ bareRepo = TRUE /\ testCommand = EmptyStr /\ rigTemplate = EmptyStr
  /\ created = {}
  /\ started = 0
  /\ inv = [p \in Procs |-> Idle]

AuditLandStart(self) == LandStartWith(self, {E1}, BOOLEAN, BOOLEAN, BOOLEAN, MaxAudits)

NextAudit ==
  \/ AuditLandStart("operator") \/ LandSteps("operator")
  \/ Status("operator") \/ Finish("operator")

SpecAudit == InitAudit /\ [][NextAudit]_vars

(***************************************************************************)
(* Description fields: add-or-replace, then lookup.                        *)
(***************************************************************************)
\* Lines of a description, and field writes in one behaviour.
MaxDescLines == 2
MaxAnnotations == 2

\* Lines a description is made of: free text, an empty line, and lines that
\* carry one of the two keys in lower or upper case, padded or not.
LinePool ==
  { OriginalText,
    EmptyStr,
    IntegrationBranchKey \o <<":"," ","o","l","d">>,
    <<"I","N","T","E","G","R","A","T","I","O","N","_","B","R","A","N","C","H",":"," ","x">>,
    <<" "," ","B","a","s","e","_","B","r","a","n","c","h",":"," ","q"," "," ">>,
    BaseBranchKey \o <<":"," ","r">> }

\* Values written into a field: branch names, one with an upper-case letter,
\* and names given with a blank before or after.
FieldValues == { Dev, <<"D","e","v">>, <<" ","d","e","v">>, <<"d","e","v"," ">> }

FieldKeys == {IntegrationBranchKey, BaseBranchKey}

RECURSIVE Descriptions(_)
Descriptions(n) ==
  IF n = 0 THEN {EmptyStr}
  ELSE Descriptions(n - 1)
         \cup {JoinLines(ls) : ls \in [1..n -> LinePool]}

InitFields ==
  /\ \E d \in Descriptions(MaxDescLines) :
       issues = (E1 :> [type |-> "epic", status |-> "open", parent |-> EmptyStr,
                        description |-> d, labels |-> {}])
  /\ origin = (Main :> {"b"}) /\ local = (Main :> {"b"}) /\ track = (Main :> {"b"})
  /\ wt = NoWorktree
  /\ bareRepo = TRUE /\ testCommand = EmptyStr /\ rigTemplate = EmptyStr
  /\ created = {}
  /\ started = 0
  /\ inv = [p \in Procs |-> Idle]

\* newDesc := beads.Add...Field(epic.Description, value); bd.Update(description)
WriteField(self) ==
  /\ inv[self].pc = "idle"
  /\ started < MaxAnnotations
  /\ \E k \in FieldKeys, v \in FieldValues :
       /\ issues' = [issues EXCEPT ![E1].description = AddField(issues[E1].description, k, v)]
       /\ inv' = [inv EXCEPT ![self] =
                    [Idle EXCEPT !.op = "annotate", !.pc = "f_read", !.epicID = E1,
                                 !.epicDesc = issues[E1].description,
                                 !.meta = [key |-> k, value |-> v, decoded |-> EmptyStr],
                                 !.pre = Snapshot]]
  /\ started' = started + 1
  /\ UNCHANGED <<local, track, origin, wt, Rig, created>>

\* beads.Get...Field(epic.Description) on the stored description
ReadField(self) ==
  LET me == inv[self] IN
  /\ me.pc = "f_read"
  /\ inv' = [inv EXCEPT ![self] =
               [me EXCEPT !.meta.decoded = GetField(issues[E1].description, me.meta.key),
                          !.result = "ok", !.pc = "done"]]
  /\ UNCHANGED <<World, Rig, created, started>>

NextFields == WriteField("operator") \/ ReadField("operator") \/ Finish("operator")

SpecFields == InitFields /\ [][NextFields]_vars

(***************************************************************************)
(* Two Create invocations in one rig, interleaved.                         *)
(***************************************************************************)
\* The remote branch before the race: absent, just created by another clone
\* from main, or already carrying work.
InitCreateRace ==
  /\ issues = (E1 :> [type |-> "epic", status |-> "open", parent |-> EmptyStr,
                      description |-> OriginalText, labels |-> {}])
  /\ \E remote \in {"none", "fresh", "ahead"} :
       LET b == BuildIntegrationBranchName(EmptyStr, E1)
           base == (Main :> {"b"}) @@ (Dev :> {"b", "d"})
       IN  /\ origin = IF remote = "none" THEN base
                       ELSE IF remote = "fresh" THEN With(base, b, {"b"})
                       ELSE With(base, b, {"b", "w"})
           /\ local = base
           /\ track = base
  /\ wt = NoWorktree
  /\ bareRepo = TRUE /\ testCommand = EmptyStr /\ rigTemplate = EmptyStr
  /\ created = {}
  /\ started = 0
  /\ inv = [p \in Procs |-> Idle]

RaceCreateStart(self) == CreateStartWith(self, {E1}, {EmptyStr}, {EmptyStr, Dev})

NextCreateRace ==
  \E self \in Procs : RaceCreateStart(self) \/ CreateSteps(self) \/ Finish(self)

SpecCreateRace == InitCreateRace /\ [][NextCreateRace]_vars

(***************************************************************************)
(* Two Land invocations in one rig, interleaved.                           *)
(***************************************************************************)
InitLandRace ==
  /\ issues = (E1 :> [type |-> "epic", status |-> "open", parent |-> EmptyStr,
                      description |-> OriginalText, labels |-> {}])
  /\ LET b == BuildIntegrationBranchName(EmptyStr, E1)
         base == (Main :> {"b"})
     IN  /\ origin = With(base, b, {"b", "w"})
         /\ local = With(base, b, {"b", "w"})
         /\ track = base
  /\ wt = NoWorktree
  /\ bareRepo = TRUE /\ testCommand \in {EmptyStr, MakeTest} /\ rigTemplate = EmptyStr
  /\ created = {}
  /\ started = 0
  /\ inv = [p \in Procs |-> Idle]

RaceLandStart(self) ==
  LandStartWith(self, {E1}, {FALSE}, {FALSE}, {FALSE}, MaxInvocations)

NextLandRace ==
  \E self \in Procs : RaceLandStart(self) \/ LandSteps(self) \/ Finish(self)

SpecLandRace == InitLandRace /\ [][NextLandRace]_vars

(***************************************************************************)
(* Refinery patrol: the auto-land tick.                                    *)
(***************************************************************************)
\* Patrol ticks in one behaviour.
MaxTicks == 1

E2 == <<"a", "-", "4">>

\* A *bool setting: omitted, true or false.
ConfigValues == {"absent", "true", "false"}

\* integration_branch_refinery_enabled: nil means true
IsIntegrationBranchRefineryEnabled(v) == v # "false"

\* Variant: auto-land is on unless switched off.
IsIntegrationBranchAutoLandEnabled_DefaultOn(v) == v # "false"

\* integration_branch_auto_land: nil means false
IsIntegrationBranchAutoLandEnabled(v) == v = "true"

\* Byte order of the characters that occur in issue ids.
CharOrder ==
  <<"-", "0", "1", "2", "3", "4", "5", "6", "7", "8", "9">> \o Upper \o Lower

CharRank(c) == CHOOSE i \in 1..Len(CharOrder) : CharOrder[i] = c

\* s sorts before t, byte by byte
IdLess(s, t) ==
  \E i \in 1..(Len(t)) :
    /\ \A j \in 1..(i - 1) : j <= Len(s) /\ s[j] = t[j]
    /\ (i > Len(s) \/ (i <= Len(s) /\ CharRank(s[i]) < CharRank(t[i])))

RECURSIVE SortedIds(_)
SortedIds(ids) ==
  IF ids = {} THEN << >>
  ELSE LET m == CHOOSE x \in ids : \A y \in ids \ {x} : IdLess(x, y)
       IN  <<m>> \o SortedIds(ids \ {m})

\* bd list --type=epic --status=open
OpenEpics == {i \in DOMAIN issues : issues[i].type = "epic" /\ issues[i].status = "open"}

\* gt mq integration status <epic> --json as read by the patrol: the snapshot
\* computed from the store and the refs after its fetch.
ReadinessSnapshot(e, refsTrack) ==
  LET b == Candidate(e, issues[e].description)
      refs == IF b \in DOMAIN local THEN local ELSE refsTrack
      ahead == IF b \in DOMAIN refs THEN CommitsAhead(refs, b) ELSE 0
      pending == PendingMRs(ListMRs(""), b)
      children == ListChildren(e)
      closed == Cardinality({c \in children : issues[c].status = "closed"})
  IN  [ahead |-> ahead, merged |-> MergedMRs(ListMRs(""), b), pending |-> pending,
       childrenTotal |-> Cardinality(children), childrenClosed |-> closed,
       ready |-> /\ (b \in DOMAIN local \/ b \in DOMAIN origin)
                 /\ isReadyToLand(ahead, Cardinality(children), closed, Cardinality(pending))]

InitPatrol ==
  /\ \E c1 \in {"open", "closed"}, c2 \in {"open", "closed"},
        s2 \in {"open", "closed"}, mr \in {"open", "closed"} :
       issues = (E1 :> [type |-> "epic", status |-> "open", parent |-> EmptyStr,
                        description |-> OriginalText, labels |-> {}])
             @@ (E2 :> [type |-> "epic", status |-> s2, parent |-> EmptyStr,
                        description |-> OriginalText, labels |-> {}])
             @@ (T1 :> ChildIssue(c1))
             @@ (T2 :> [ChildIssue(c2) EXCEPT !.parent = E2])
             @@ (M1 :> [type |-> "task", status |-> mr, parent |-> EmptyStr,
                        description |-> TargetLine(BuildIntegrationBranchName(EmptyStr, E1)),
                        labels |-> {MRLabel}])
  /\ \E where2 \in {"origin", "everywhere"} :
       LET b1 == BuildIntegrationBranchName(EmptyStr, E1)
           b2 == BuildIntegrationBranchName(EmptyStr, E2)
           base == (Main :> {"b"})
       IN  /\ origin = With(With(base, b1, {"b", "w"}), b2, {"b", "v"})
           /\ local = IF where2 = "everywhere"
                        THEN With(With(base, b1, {"b", "w"}), b2, {"b", "v"})
                        ELSE With(base, b1, {"b", "w"})
           /\ track = base
  /\ wt = NoWorktree
  /\ bareRepo = TRUE /\ testCommand = EmptyStr /\ rigTemplate = EmptyStr
  /\ created = {}
  /\ started = 0
  /\ inv = [p \in Procs |-> Idle]

\* The tick begins: both settings are read; with either off the step exits
\* early, otherwise the open epics are listed in id order.
PatrolStart(self) ==
  /\ inv[self].pc = "idle"
  /\ started < MaxTicks
  /\ \E rc \in ConfigValues, ac \in ConfigValues, r \in Outcomes :
       LET on == /\ IsIntegrationBranchRefineryEnabled(rc)
                 /\ IsIntegrationBranchAutoLandEnabled(ac)
                 /\ r = "ok"
       IN  inv' = [inv EXCEPT ![self] =
                     [Idle EXCEPT !.op = "tick", !.pc = IF on THEN "t_next" ELSE "done",
                                  !.tick = [refinery |-> rc, autoLand |-> ac,
                                            queue |-> IF on THEN SortedIds(OpenEpics) ELSE << >>,
                                            seen |-> << >>, lands |-> << >>,
                                            origin0 |-> origin, issues0 |-> issues],
                                  !.pre = Snapshot]]
  /\ started' = started + 1
  /\ UNCHANGED <<World, Rig, created>>

\* The next epic of the list: its readiness snapshot is taken; a ready epic is
\* landed (no force, tests as configured), any other is skipped.
PatrolNext(self) ==
  LET me == inv[self] IN
  /\ me.op = "tick" /\ me.pc = "t_next"
  /\ IF me.tick.queue = << >>
       THEN /\ inv' = [inv EXCEPT ![self] = [me EXCEPT !.pc = "done"]]
            /\ track' = track
       ELSE \E r \in Outcomes, f \in Outcomes :
              LET e == Head(me.tick.queue)
                  track1 == IF r = "ok" /\ f = "ok" THEN FetchAll ELSE track
                  snap == ReadinessSnapshot(e, track1)
                  t1 == [me.tick EXCEPT !.queue = Tail(me.tick.queue),
                                        !.seen = Append(me.tick.seen, e)]
              IN  /\ track' = track1
                  /\ inv' = [inv EXCEPT ![self] =
                               IF r = "ok" /\ snap.ready
                                 THEN [Idle EXCEPT !.op = "land", !.pc = "l_show",
                                                   !.epicID = e, !.out = snap, !.tick = t1,
                                                   !.pre = [Snapshot EXCEPT !.track = track1]]
                                 ELSE [me EXCEPT !.tick = t1]]
  /\ UNCHANGED <<issues, local, origin, wt, Rig, created, started>>

\* Variant: the tick goes on to the next epic after a successful land.
PatrolAfterLand_Continues(self) ==
  LET me == inv[self] IN
  /\ me.op = "land" /\ me.pc = "done"
  /\ inv' = [inv EXCEPT ![self] =
               [Idle EXCEPT !.op = "tick", !.pc = "t_next",
                            !.tick = [me.tick EXCEPT !.lands =
                                        Append(me.tick.lands,
                                               [epic |-> me.epicID, result |-> me.result])],
                            !.pre = me.pre]]
  /\ UNCHANGED <<World, Rig, created, started>>

\* The land has returned: after a success the tick is over, after a failure
\* the failure is logged and the tick goes on with the next epic.
PatrolAfterLand(self) ==
  LET me == inv[self] IN
  /\ me.op = "land" /\ me.pc = "done"
  /\ inv' = [inv EXCEPT ![self] =
               [Idle EXCEPT !.op = "tick",
                            !.pc = IF me.result = "ok" THEN "done" ELSE "t_next",
                            !.tick = [me.tick EXCEPT !.lands =
                                        Append(me.tick.lands,
                                               [epic |-> me.epicID, result |-> me.result])],
                            !.pre = me.pre]]
  /\ UNCHANGED <<World, Rig, created, started>>

\* The tick is over; the patrol sleeps until the next one.
PatrolFinish(self) ==
  /\ inv[self].op = "tick" /\ inv[self].pc = "done"
  /\ inv' = [inv EXCEPT ![self] = Idle]
  /\ UNCHANGED <<World, Rig, created, started>>

PatrolTick(self) ==
  \/ PatrolStart(self) \/ PatrolNext(self) \/ PatrolAfterLand(self) \/ PatrolFinish(self)

NextPatrol == PatrolTick("patrol") \/ LandSteps("patrol")

SpecPatrol == InitPatrol /\ [][NextPatrol]_vars

(***************************************************************************)
(* validateBranchName applied to branch names.                             *)
(***************************************************************************)
\* Fragments a checked name is made of, and names checked in one behaviour.
MaxNameParts == 3
MaxValidations == 1

\* Pieces of branch names: the names of TestValidateBranchName are made of
\* letters, separators and the characters the tests probe.
NameFragments ==
  { <<"a">>, <<"a","/">>, <<"/">>, <<".">>, <<"~">>, <<"^">>, <<":">>, <<"\\">>,
    <<" ">>, <<"\t">>, <<"@">>, <<"{">>, <<"?">>, <<"*">>, <<"[">>,
    <<".","l","o","c","k">> }

RECURSIVE Concat(_, _)
Concat(parts, n) == IF n = 0 THEN EmptyStr ELSE Concat(parts, n - 1) \o parts[n]

\* the names of at most k fragments
BranchNames(k) == UNION { {Concat(ps, n) : ps \in [1..n -> NameFragments]} : n \in 0..k }

InitValidate ==
  /\ issues = (E1 :> [type |-> "epic", status |-> "open", parent |-> EmptyStr,
                      description |-> EmptyStr, labels |-> {}])
  /\ origin = (Main :> {"b"}) /\ local = (Main :> {"b"}) /\ track = (Main :> {"b"})
  /\ wt = NoWorktree
  /\ bareRepo = TRUE /\ testCommand = EmptyStr /\ rigTemplate = EmptyStr
  /\ created = {}
  /\ started = 0
  /\ inv = [p \in Procs |-> Idle]

\* a caller has a branch name in hand
ValidateStart(self) ==
  /\ inv[self].pc = "idle"
  /\ started < MaxValidations
  /\ \E n \in BranchNames(MaxNameParts) :
       inv' = [inv EXCEPT ![self] =
                 [Idle EXCEPT !.op = "validate", !.pc = "v_check", !.branchName = n,
                              !.pre = Snapshot]]
  /\ started' = started + 1
  /\ UNCHANGED <<World, Rig, created>>

\* err := validateBranchName(branchName)
ValidateCheck(self) ==
  LET me == inv[self] IN
  /\ me.pc = "v_check"
  /\ inv' = [inv EXCEPT ![self] =
               IF validateBranchName(me.branchName)
                 THEN Return(me, "ok", "none", <<Ev("validate", TRUE)>>, FALSE)
                 ELSE Return(me, "err", "invalid-branch-name", <<Ev("validate", FALSE)>>, FALSE)]
  /\ UNCHANGED <<World, Rig, created, started>>

NextValidate == ValidateStart("operator") \/ ValidateCheck("operator") \/ Finish("operator")

SpecValidate == InitValidate /\ [][NextValidate]_vars

(***************************************************************************)
(* Land on an epic with or without a recorded base branch, under each      *)
(* setting of the test command.                                            *)
(***************************************************************************)
MaxLandRuns == 1

TestCommands == {EmptyStr, BlankCommand, MakeTest}

InitLandRun ==
  /\ \E d \in {OriginalText, AddBaseBranchField(OriginalText, Dev)} :
       issues = (E1 :> [type |-> "epic", status |-> "open", parent |-> EmptyStr,
                        description |-> d, labels |-> {}])
  /\ \E where \in {"origin", "everywhere"}, ahead \in BOOLEAN :
       LET b == BuildIntegrationBranchName(EmptyStr, E1)
           base == (Main :> {"b"}) @@ (Dev :> {"b"})
           remote == IF ahead THEN (Main :> {"b", "x"}) @@ (Dev :> {"b", "d"}) ELSE base
       IN  /\ origin = With(remote, b, {"b", "w"})
           /\ local = IF where = "everywhere" THEN With(base, b, {"b", "w"}) ELSE base
           /\ track = base
  /\ wt = NoWorktree
  /\ bareRepo = TRUE /\ testCommand \in TestCommands /\ rigTemplate = EmptyStr
  /\ created = {}
  /\ started = 0
  /\ inv = [p \in Procs |-> Idle]

RunLandStart(self) == LandStartWith(self, {E1}, {FALSE}, BOOLEAN, {FALSE}, MaxLandRuns)

NextLandRun == RunLandStart("operator") \/ LandSteps("operator") \/ Finish("operator")

SpecLandRun == InitLandRun /\ [][NextLandRun]_vars

(***************************************************************************)
(* Status and Land of one epic, side by side, over merge requests of every *)
(* status.                                                                 *)
(***************************************************************************)
MaxBlockedLands == 1

InitBlocked ==
  /\ \E k \in MRKinds :
       LET b == BuildIntegrationBranchName(EmptyStr, E1)
       IN  issues = (E1 :> [type |-> "epic", status |-> "open", parent |-> EmptyStr,
                            description |-> OriginalText, labels |-> {}])
                 @@ (T1 :> ChildIssue("closed"))
                 @@ (M1 :> MRIssue(k, b))
  /\ \E where \in {"origin", "everywhere"} :
       LET b == BuildIntegrationBranchName(EmptyStr, E1)
           base == (Main :> {"b"})
       IN  /\ origin = With(base, b, {"b", "w"})
           /\ local = IF where = "everywhere" THEN With(base, b, {"b", "w"}) ELSE base
           /\ track = base
  /\ wt = NoWorktree
  /\ bareRepo = TRUE /\ testCommand = EmptyStr /\ rigTemplate = EmptyStr
  /\ created = {}
  /\ started = 0
  /\ inv = [p \in Procs |-> Idle]

BlockedLandStart(self) ==
  LandStartWith(self, {E1}, {FALSE}, {FALSE}, {FALSE}, MaxStatusCalls + MaxBlockedLands)

NextBlocked ==
  \/ Status("patrol") \/ Finish("patrol")
  \/ BlockedLandStart("operator") \/ LandSteps("operator") \/ Finish("operator")

SpecBlocked == InitBlocked /\ [][NextBlocked]_vars

(***************************************************************************)
(* A Land and MR submissions against the same integration branch.          *)
(***************************************************************************)
MaxSubmits == 1

InitSubmitRace ==
  /\ issues = (E1 :> [type |-> "epic", status |-> "open", parent |-> EmptyStr,
                      description |-> OriginalText, labels |-> {}])
            @@ (T1 :> ChildIssue("open"))
  /\ \E where \in {"origin", "everywhere"} :
       LET b == BuildIntegrationBranchName(EmptyStr, E1)
           base == (Main :> {"b"})
       IN  /\ origin = With(base, b, {"b", "w"})
           /\ local = IF where = "everywhere" THEN With(base, b, {"b", "w"}) ELSE base
           /\ track = base
  /\ wt = NoWorktree
  /\ bareRepo = TRUE /\ testCommand = EmptyStr /\ rigTemplate = EmptyStr
  /\ created = {}
  /\ started = 0
  /\ inv = [p \in Procs |-> Idle]

\* Submit on behalf of the epic's child: the target is the integration branch
\* of the epic when it exists locally or on origin, else main.
SubmitResolve(self) ==
  /\ inv[self].pc = "idle"
  /\ started < MaxSubmits + MaxBlockedLands
  /\ {M1, M2} \ DOMAIN issues # {}
  /\ LET b == Candidate(E1, issues[E1].description)
     IN  inv' = [inv EXCEPT ![self] =
                   [Idle EXCEPT !.op = "submit", !.pc = "m_create", !.epicID = T1,
                                !.targetBranch = IF b \in DOMAIN local \cup DOMAIN origin
                                                   THEN b ELSE Main,
                                !.pre = Snapshot]]
  /\ started' = started + 1
  /\ UNCHANGED <<World, Rig, created>>

\* The MR is created against the resolved target: an open issue carrying the
\* merge-request label.
SubmitCreate(self) ==
  LET me == inv[self]
      id == IF M1 \notin DOMAIN issues THEN M1 ELSE M2
  IN
  /\ me.pc = "m_create"
  /\ issues' = (id :> [type |-> "task", status |-> "open", parent |-> EmptyStr,
                       description |-> TargetLine(me.targetBranch),
                       labels |-> {MRLabel}]) @@ issues
  /\ inv' = [inv EXCEPT ![self] = Return(me, "ok", "none", <<Ev("submit", TRUE)>>, FALSE)]
  /\ UNCHANGED <<local, track, origin, wt, Rig, created, started>>

SubmitRaceLandStart(self) ==
  LandStartWith(self, {E1}, {FALSE}, {FALSE}, {FALSE}, MaxSubmits + MaxBlockedLands)

NextSubmitRace ==
  \/ SubmitResolve("patrol") \/ SubmitCreate("patrol") \/ Finish("patrol")
  \/ SubmitRaceLandStart("operator") \/ LandSteps("operator") \/ Finish("operator")

SpecSubmitRace == InitSubmitRace /\ [][NextSubmitRace]_vars

(***************************************************************************)
(* A Land while another party pushes to the base branches of origin.       *)
(***************************************************************************)
\* the commit the other party adds
OtherCommit == "y"

\* Another clone pushes a commit to a base branch of origin.
AdvanceBase ==
  /\ \E b \in {Main, Dev} \cap DOMAIN origin :
       /\ OtherCommit \notin origin[b]
       /\ origin' = With(origin, b, origin[b] \cup {OtherCommit})
  /\ UNCHANGED <<issues, local, track, wt, Rig, created, started, inv>>

NextBaseRace ==
  \/ RunLandStart("operator") \/ LandSteps("operator") \/ Finish("operator")
  \/ AdvanceBase

\* no test command is configured in the rig
InitBaseRace == InitLandRun /\ testCommand = EmptyStr

SpecBaseRace == InitBaseRace /\ [][NextBaseRace]_vars

(***************************************************************************)
(* Vocabulary of the properties.                                           *)
(***************************************************************************)
Returned(p, op) == inv[p].op = op /\ inv[p].pc = "done"

HasEv(p, step, ok) == \E i \in 1..Len(inv[p].events) : inv[p].events[i] = Ev(step, ok)

Did(p, step) == \E i \in 1..Len(inv[p].events) : inv[p].events[i].step = step

StepNames(p) == [i \in 1..Len(inv[p].events) |-> inv[p].events[i].step]

Count(p, step) == Cardinality({i \in 1..Len(inv[p].events) : inv[p].events[i].step = step})

\* the local branch has the existence and the value it had when the command started
LocalBranchAsBefore(p, b) ==
  /\ b \in DOMAIN local <=> b \in DOMAIN inv[p].pre.local
  /\ b \in DOMAIN local => local[b] = inv[p].pre.local[b]

EpicStatusAsBefore(p) ==
  Known(inv[p].epicID) => issues[inv[p].epicID].status = inv[p].pre.issues[inv[p].epicID].status

(***************************************************************************)
(* C1                                                                      *)
(***************************************************************************)
\* C1 as stated: every Land (not dry-run) that returns success leaves the
\* integration branch neither local nor on origin and the epic closed,
\* whatever the outcomes of the calls it made.
C1_SuccessRetiresBranchAndEpic ==
  \A p \in Procs :
    Returned(p, "land") /\ inv[p].result = "ok" /\ ~inv[p].dryRun =>
      /\ inv[p].branchName \notin DOMAIN local
      /\ inv[p].branchName \notin DOMAIN origin
      /\ issues[inv[p].epicID].status = "closed"

\* C1 amended: after a Land (not dry-run) that returns success the base was
\* pushed, and the integration branch is gone from origin unless the remote
\* delete failed, gone locally unless the local delete failed, and the epic
\* is closed unless the close failed.
C1_SuccessRetiresUnlessCleanupFailed ==
  \A p \in Procs :
    Returned(p, "land") /\ inv[p].result = "ok" /\ ~inv[p].dryRun =>
      /\ HasEv(p, "push", TRUE)
      /\ HasEv(p, "delete-remote", TRUE) => inv[p].branchName \notin DOMAIN origin
      /\ HasEv(p, "delete-local", TRUE) => inv[p].branchName \notin DOMAIN local
      /\ HasEv(p, "close", TRUE) => issues[inv[p].epicID].status = "closed"

C1_Witness ==
  \E p \in Procs :
    /\ Returned(p, "land") /\ inv[p].result = "ok" /\ ~inv[p].dryRun
    /\ inv[p].branchName \in DOMAIN inv[p].pre.origin
    /\ inv[p].branchName \in DOMAIN inv[p].pre.local
    /\ inv[p].pre.issues[inv[p].epicID].status = "open"
    /\ HasEv(p, "delete-remote", TRUE) /\ HasEv(p, "delete-local", TRUE)
    /\ HasEv(p, "close", TRUE)
    /\ inv[p].branchName \notin DOMAIN origin \cup DOMAIN local
    /\ issues[inv[p].epicID].status = "closed"

(***************************************************************************)
(* C2                                                                      *)
(***************************************************************************)
\* C2 as stated: a Land that returns an error leaves origin/<branch> as it
\* was, has not closed the epic, and .land-worktree does not exist on return.
C2_FailedLandLeavesNoTrace ==
  \A p \in Procs :
    Returned(p, "land") /\ inv[p].result = "err" =>
      /\ origin = inv[p].pre.origin
      /\ EpicStatusAsBefore(p)
      /\ ~wt.dir

\* C2 amended: a Land that returns an error leaves origin/<branch> as it was
\* and has not closed the epic; .land-worktree does not exist on return,
\* except when a stale directory was there before and Land failed before it
\* reached the worktree creation, or when a removal of the directory (of the
\* stale one, or the teardown) failed.
C2_FailedLandLeavesNoTraceUnlessRemovalFailed ==
  \A p \in Procs :
    Returned(p, "land") /\ inv[p].result = "err" =>
      /\ origin = inv[p].pre.origin
      /\ EpicStatusAsBefore(p)
      /\ wt.dir =>
           \/ inv[p].pre.wt.dir /\ ~Did(p, "worktree")
           \/ HasEv(p, "stale-cleanup", FALSE)
           \/ HasEv(p, "teardown", FALSE)

C2_Witness ==
  \E p \in Procs :
    /\ Returned(p, "land") /\ inv[p].err = "push-failed"
    /\ inv[p].branchName \in DOMAIN origin
    /\ HasEv(p, "teardown", TRUE) /\ ~wt.dir
    /\ issues[inv[p].epicID].status = "open"

(***************************************************************************)
(* C3                                                                      *)
(***************************************************************************)
\* C3 as stated: when the merge succeeds and the diff HEAD~1..HEAD is empty,
\* Land returns an error, pushes nothing, deletes neither the remote nor the
\* local integration branch, does not close the epic, and the worktree is
\* removed.
C3_EmptyMergeGuard ==
  \A p \in Procs :
    Returned(p, "land") /\ HasEv(p, "merge", TRUE) /\ inv[p].diff = "empty" =>
      /\ inv[p].result = "err"
      /\ origin = inv[p].pre.origin
      /\ LocalBranchAsBefore(p, inv[p].branchName)
      /\ EpicStatusAsBefore(p)
      /\ ~wt.dir /\ ~wt.reg

\* C3 amended: when the merge succeeds and the diff is empty, Land returns an
\* error, pushes nothing, deletes neither integration branch and does not
\* close the epic; the worktree teardown still runs, and the worktree is gone
\* unless the teardown's removal failed.
C3_EmptyMergeGuardTeardownRuns ==
  \A p \in Procs :
    Returned(p, "land") /\ HasEv(p, "merge", TRUE) /\ inv[p].diff = "empty" =>
      /\ inv[p].result = "err"
      /\ origin = inv[p].pre.origin
      /\ LocalBranchAsBefore(p, inv[p].branchName)
      /\ EpicStatusAsBefore(p)
      /\ Count(p, "teardown") = 1
      /\ HasEv(p, "teardown", TRUE) => ~wt.dir /\ ~wt.reg

C3_Witness ==
  \E p \in Procs :
    /\ Returned(p, "land") /\ HasEv(p, "merge", TRUE) /\ inv[p].diff = "empty"
    /\ inv[p].err = "empty-merge"
    /\ inv[p].branchName \in DOMAIN origin /\ inv[p].branchName \in DOMAIN local
    /\ HasEv(p, "teardown", TRUE) /\ ~wt.dir

(***************************************************************************)
(* C4                                                                      *)
(***************************************************************************)
\* The externally visible steps of a land, in the order the claim lists them.
VisibleSteps ==
  <<"audit", "fetch", "worktree", "merge", "test", "verify", "push",
    "delete-remote", "delete-local", "close", "teardown">>

\* C4: in every successful Land (not dry-run) the visible steps occur in
\* exactly the listed order, each once, the test run exactly when tests are
\* not skipped and a test command is configured.
C4_StepsInOrder ==
  \A p \in Procs :
    Returned(p, "land") /\ inv[p].result = "ok" /\ ~inv[p].dryRun =>
      SelectSeq(StepNames(p), LAMBDA n : \E i \in 1..Len(VisibleSteps) : VisibleSteps[i] = n)
        = SelectSeq(VisibleSteps,
                    LAMBDA n : n = "test" => ~inv[p].skipTests /\ testCommand # EmptyStr)

C4_Witness ==
  \E p \in Procs :
    /\ Returned(p, "land") /\ inv[p].result = "ok" /\ ~inv[p].dryRun
    /\ Did(p, "test")
    /\ HasEv(p, "delete-remote", TRUE) /\ HasEv(p, "delete-local", TRUE)
    /\ HasEv(p, "close", TRUE) /\ HasEv(p, "teardown", TRUE)

(***************************************************************************)
(* C5                                                                      *)
(***************************************************************************)
\* C5 as stated: once Land has created the worktree, every ending runs the
\* teardown exactly once, as the last step, and no Land ends with the
\* worktree it created still registered.
C5_TeardownAlwaysRemoves ==
  \A p \in Procs :
    Returned(p, "land") /\ HasEv(p, "worktree", TRUE) =>
      /\ Count(p, "teardown") = 1
      /\ inv[p].events[Len(inv[p].events)].step = "teardown"
      /\ ~wt.reg

\* C5 amended: once Land has created the worktree, every ending runs the
\* teardown exactly once, as the last step, its errors not changing the
\* result; the worktree is no longer registered at the end unless the
\* teardown's git worktree remove failed.
C5_TeardownAlwaysRuns ==
  \A p \in Procs :
    Returned(p, "land") /\ HasEv(p, "worktree", TRUE) =>
      /\ Count(p, "teardown") = 1
      /\ inv[p].events[Len(inv[p].events)].step = "teardown"
      /\ HasEv(p, "teardown", TRUE) => ~wt.reg /\ ~wt.dir
      /\ inv[p].result = "err" <=>
           inv[p].err \in {"merge-conflict", "tests-failed", "empty-merge", "push-failed"}

C5_Witness ==
  \E p \in Procs :
    /\ Returned(p, "land") /\ HasEv(p, "worktree", TRUE)
    /\ inv[p].err = "tests-failed"
    /\ HasEv(p, "teardown", TRUE) /\ ~wt.reg

(***************************************************************************)
(* C6                                                                      *)
(***************************************************************************)
\* C6: a Land invoked with dry_run=true changes nothing: local refs
\* (branches and remote-tracking refs of the rig repository), remote refs,
\* worktree directory and issue store are as before, and the invocation
\* stops after the MR audit.
C6_DryRunChangesNothing ==
  \A p \in Procs :
    Returned(p, "land") /\ inv[p].dryRun =>
      /\ Snapshot = inv[p].pre
      /\ \A i \in 1..Len(inv[p].events) : inv[p].events[i].step = "audit"

\* A dry run that returned success on a branch that was only on origin.
C6_DryRunFetched ==
  \E p \in Procs :
    /\ Returned(p, "land") /\ inv[p].dryRun /\ inv[p].result = "ok"
    /\ inv[p].branchName \in DOMAIN inv[p].pre.origin
    /\ inv[p].branchName \notin DOMAIN inv[p].pre.local
    /\ track # inv[p].pre.track

(***************************************************************************)
(* C7                                                                      *)
(***************************************************************************)
\* C7: with an open MR targeting the integration branch, Land without force
\* returns an error and leaves refs, worktree and issue store untouched; with
\* force, or with no open MR, it proceeds past the MR audit.
C7_PendingMRsBlockWithoutEffects ==
  \A p \in Procs :
    inv[p].op = "land" =>
      LET pending == findOpenMRsForIntegration(inv[p].branchName) # {} IN
      /\ HasEv(p, "audit", FALSE) => pending /\ ~inv[p].force
      /\ HasEv(p, "audit", TRUE) => ~pending \/ inv[p].force
      /\ Returned(p, "land") /\ inv[p].err = "pending-mrs" =>
           /\ inv[p].result = "err"
           /\ Snapshot = inv[p].pre

\* A Land stopped by the audit after it fetched the remote-only branch.
C7_BlockedAfterFetch ==
  \E p \in Procs :
    /\ Returned(p, "land") /\ inv[p].err = "pending-mrs"
    /\ track # inv[p].pre.track

(***************************************************************************)
(* C8                                                                      *)
(***************************************************************************)
\* The children of an epic that are not closed, in a given issue store.
OpenChildren(store, epicID) ==
  {i \in DOMAIN store : store[i].parent = epicID /\ store[i].status # "closed"}

\* C8: a Land without force never merges, pushes or retires the integration
\* branch of an epic that has a child which is not closed.
C8_OpenChildNeedsForce ==
  \A p \in Procs :
    /\ inv[p].op = "land" /\ ~inv[p].force /\ ~inv[p].dryRun
    /\ OpenChildren(inv[p].pre.issues, inv[p].epicID) # {}
    => /\ ~Did(p, "merge") /\ ~Did(p, "push")
       /\ ~Did(p, "delete-remote") /\ ~Did(p, "delete-local") /\ ~Did(p, "close")

\* A Land without force that landed an epic whose child is still open.
C8_LandedWithOpenChild ==
  \E p \in Procs :
    /\ Returned(p, "land") /\ ~inv[p].force /\ inv[p].result = "ok" /\ ~inv[p].dryRun
    /\ OpenChildren(issues, inv[p].epicID) # {}
    /\ HasEv(p, "push", TRUE) /\ HasEv(p, "close", TRUE)

(***************************************************************************)
(* C9                                                                      *)
(***************************************************************************)
\* C9: an epic has at most one integration branch: of the branches Create
\* made for an epic at most one is on origin, and a Create for an epic whose
\* description already names an integration branch fails and adds no branch.
C9_OneBranchPerEpic ==
  /\ \A e \in IssueIDs :
       Cardinality({c \in created : c[1] = e /\ c[2] \in DOMAIN origin}) <= 1
  /\ \A p \in Procs :
       /\ Returned(p, "create") /\ Known(inv[p].epicID)
       /\ GetIntegrationBranchField(inv[p].pre.issues[inv[p].epicID].description) # EmptyStr
       => /\ inv[p].result = "err"
          /\ DOMAIN origin = DOMAIN inv[p].pre.origin

\* A second Create that succeeded for an epic that already had a branch.
C9_SecondBranchCreated ==
  \E p \in Procs :
    LET d == inv[p].pre.issues[inv[p].epicID].description IN
    /\ Returned(p, "create") /\ inv[p].result = "ok"
    /\ GetIntegrationBranchField(d) # EmptyStr
    /\ GetIntegrationBranchField(d) # inv[p].branchName
    /\ {GetIntegrationBranchField(d), inv[p].branchName} \subseteq DOMAIN origin

(***************************************************************************)
(* C10                                                                     *)
(***************************************************************************)
\* C10 as stated: after every Create that returns success for epic E with
\* branch name B, origin/B exists and the integration_branch field decoded
\* from E's stored description is exactly B.
C10_CreatedBranchIsRecorded ==
  \A p \in Procs :
    Returned(p, "create") /\ inv[p].result = "ok" =>
      /\ inv[p].branchName \in DOMAIN origin
      /\ GetIntegrationBranchField(issues[inv[p].epicID].description) = inv[p].branchName

\* C10 amended: after every Create that returns success for epic E with
\* branch name B, origin/B exists; the integration_branch field decoded from
\* E's stored description is exactly B unless the issue store refused the
\* description update, and then the description is the one E had before.
C10_CreatedBranchIsRecordedUnlessUpdateFailed ==
  \A p \in Procs :
    Returned(p, "create") /\ inv[p].result = "ok" =>
      /\ inv[p].branchName \in DOMAIN origin
      /\ validateBranchName(inv[p].branchName)
      /\ HasEv(p, "update", TRUE) =>
           GetIntegrationBranchField(issues[inv[p].epicID].description) = inv[p].branchName
      /\ HasEv(p, "update", FALSE) =>
           issues[inv[p].epicID].description = inv[p].pre.issues[inv[p].epicID].description

C10_Witness ==
  \E p \in Procs :
    /\ Returned(p, "create") /\ inv[p].result = "ok"
    /\ inv[p].tmpl = FeatureTemplate
    /\ inv[p].branchName \notin DOMAIN inv[p].pre.origin
    /\ inv[p].branchName \in DOMAIN origin
    /\ HasEv(p, "update", TRUE)
    /\ GetIntegrationBranchField(issues[inv[p].epicID].description) = inv[p].branchName

(***************************************************************************)
(* C11                                                                     *)
(***************************************************************************)
\* C11: after every successful Create the epic description contains a
\* base_branch field if and only if the integration branch was created from
\* a base other than the default (main).
C11_BaseFieldIffNonDefaultBase ==
  \A p \in Procs :
    Returned(p, "create") /\ inv[p].result = "ok" =>
      (GetBaseBranchField(issues[inv[p].epicID].description) # EmptyStr
         <=> BaseBranchDisplay(inv[p].base) # Main)

\* A Create from the default base, named by the flag, whose metadata update
\* succeeded and wrote base_branch: main.
C11_DefaultBaseRecorded ==
  \E p \in Procs :
    /\ Returned(p, "create") /\ inv[p].result = "ok"
    /\ inv[p].base = Main
    /\ GetBaseBranchField(inv[p].pre.issues[inv[p].epicID].description) = EmptyStr
    /\ HasEv(p, "update", TRUE)
    /\ GetBaseBranchField(issues[inv[p].epicID].description) = Main

(***************************************************************************)
(* C12                                                                     *)
(***************************************************************************)
\* The branch name a Create computes from its flags and the rig settings.
CreateName(p) ==
  BuildIntegrationBranchName(getIntegrationBranchTemplate(rigTemplate, inv[p].tmpl),
                             inv[p].epicID)

\* Invalid input of a Create: unknown epic, issue that is not an epic, name
\* failing validation, branch existing locally or on origin when it started.
InvalidCreateInput(p) ==
  \/ ~Known(inv[p].epicID)
  \/ issues[inv[p].epicID].type # "epic"
  \/ ~validateBranchName(CreateName(p))
  \/ CreateName(p) \in DOMAIN inv[p].pre.local
  \/ CreateName(p) \in DOMAIN inv[p].pre.origin

\* C12 as stated: a Create on invalid input (unknown epic, non-epic issue,
\* invalid name, branch already existing locally or on origin) is rejected
\* without side effects: no local branch is created, nothing is pushed and
\* the description is not written, whatever the outcome of the
\* remote-existence probe.
C12_InvalidInputRejectedWithoutEffects ==
  \A p \in Procs :
    Returned(p, "create") /\ InvalidCreateInput(p) =>
      /\ inv[p].result = "err"
      /\ local = inv[p].pre.local /\ origin = inv[p].pre.origin
      /\ issues = inv[p].pre.issues
      /\ ~HasEv(p, "branch", TRUE) /\ ~HasEv(p, "push", TRUE) /\ ~Did(p, "update")

\* C12 amended: a Create on invalid input is rejected without side effects
\* provided the remote-existence probe, when it is reached, answers; when the
\* probe fails Create continues as if the branch were not on origin.
C12_InvalidInputRejectedWhenProbeAnswers ==
  \A p \in Procs :
    Returned(p, "create") /\ InvalidCreateInput(p) /\ ~HasEv(p, "remote-probe", FALSE) =>
      /\ inv[p].result = "err"
      /\ inv[p].err \in {"fetching-epic", "not-found", "not-an-epic", "invalid-name",
                         "checking-branch", "exists-locally", "exists-on-origin"}
      /\ Snapshot = inv[p].pre
      /\ ~Did(p, "branch") /\ ~Did(p, "push") /\ ~Did(p, "update")

C12_Witness ==
  \E p \in Procs :
    /\ Returned(p, "create") /\ inv[p].err = "exists-on-origin"
    /\ CreateName(p) \in DOMAIN inv[p].pre.origin
    /\ CreateName(p) \notin DOMAIN inv[p].pre.local
    /\ Snapshot = inv[p].pre

(***************************************************************************)
(* C13                                                                     *)
(***************************************************************************)
\* C13: if the push in Create fails, Create attempts to delete the local
\* branch it just created, returns an error, and writes neither
\* integration_branch nor base_branch into the epic description.
C13_PushFailureRollsBack ==
  \A p \in Procs :
    Returned(p, "create") /\ HasEv(p, "push", FALSE) =>
      /\ inv[p].result = "err" /\ inv[p].err = "push-failed"
      /\ HasEv(p, "branch", TRUE)
      /\ Did(p, "delete-local")
      /\ HasEv(p, "delete-local", TRUE) => inv[p].branchName \notin DOMAIN local
      /\ ~Did(p, "update")
      /\ issues = inv[p].pre.issues
      /\ origin = inv[p].pre.origin

C13_Witness ==
  \E p \in Procs :
    /\ Returned(p, "create") /\ HasEv(p, "push", FALSE)
    /\ HasEv(p, "delete-local", TRUE)
    /\ inv[p].branchName \notin DOMAIN local
    /\ GetIntegrationBranchField(issues[inv[p].epicID].description) = EmptyStr

(***************************************************************************)
(* C14                                                                     *)
(***************************************************************************)
\* C14 as stated: a failure of fetch origin in Create is only a warning:
\* Create still goes on to create the local branch from the base ref, and
\* its outcome is decided by that step, not by the fetch.
C14_FetchFailureIsWarning ==
  \A p \in Procs :
    Returned(p, "create") /\ HasEv(p, "fetch", FALSE) =>
      /\ Did(p, "branch")
      /\ inv[p].err # "fetch"

\* C14 amended: a failure of fetch origin in Create is fatal: Create returns
\* the fetch error at once, without creating the local branch, pushing or
\* writing the epic description.
C14_FetchFailureIsFatal ==
  \A p \in Procs :
    Returned(p, "create") /\ HasEv(p, "fetch", FALSE) =>
      /\ inv[p].result = "err" /\ inv[p].err = "fetch"
      /\ ~Did(p, "branch") /\ ~Did(p, "push") /\ ~Did(p, "update")
      /\ Snapshot = inv[p].pre

C14_Witness ==
  \E p \in Procs :
    /\ Returned(p, "create") /\ HasEv(p, "fetch", FALSE)
    /\ inv[p].err = "fetch"
    /\ validateBranchName(inv[p].branchName)
    /\ inv[p].branchName \notin DOMAIN local \cup DOMAIN origin

(***************************************************************************)
(* C15                                                                     *)
(***************************************************************************)
\* The issue i parent links above the origin issue is an epic whose branch
\* (the one its description names, else the default name) exists locally or
\* on origin.
EpicWithBranchAt(i) ==
  /\ Node(i) \in DOMAIN issues
  /\ issues[Node(i)].type = "epic"
  /\ Candidate(Node(i), issues[Node(i)].description) \in DOMAIN local \cup DOMAIN origin

\* No issue load and no branch-existence check of the invocation failed.
NoCallFailed(p) == \A i \in 1..Len(inv[p].events) : inv[p].events[i].ok

\* C15 as stated: for every issue whose parent chain contains an epic
\* carrying integration branch B, where B exists locally or on origin, the
\* resolver called on the issue returns B.
C15_ResolverReturnsEpicBranch ==
  \A p \in Procs :
    Returned(p, "resolve") /\ inv[p].epicID = Node(0) =>
      \A i \in 0..MaxChain :
        EpicWithBranchAt(i) /\ GetIntegrationBranchField(issues[Node(i)].description) # EmptyStr
        => /\ inv[p].result = "ok"
           /\ inv[p].branchName = GetIntegrationBranchField(issues[Node(i)].description)

\* C15 amended: when the parent chain of an issue contains, fewer than 10
\* parent links above it, an epic whose branch (named in its description,
\* else integration/<epic id>) exists locally or on origin, and no issue load
\* or branch check fails, the resolver returns the branch of the nearest such
\* epic.
C15_ResolverReturnsNearestEpicBranch ==
  \A p \in Procs :
    Returned(p, "resolve") /\ inv[p].epicID = Node(0) /\ NoCallFailed(p) =>
      \A i \in 0..(MaxDepth - 1) :
        EpicWithBranchAt(i) /\ (\A j \in 0..(i - 1) : ~EpicWithBranchAt(j))
        => /\ inv[p].result = "ok"
           /\ inv[p].branchName = Candidate(Node(i), issues[Node(i)].description)
           /\ inv[p].depth = i

C15_Witness ==
  \E p \in Procs :
    /\ Returned(p, "resolve") /\ inv[p].result = "ok"
    /\ inv[p].depth = 3
    /\ EpicWithBranchAt(3)
    /\ GetIntegrationBranchField(issues[Node(3)].description) # EmptyStr
    /\ inv[p].branchName = NamedBranch(Node(3))
    /\ inv[p].branchName \notin DOMAIN local
    /\ HasEv(p, "remote-check", TRUE)

(***************************************************************************)
(* C16                                                                     *)
(***************************************************************************)
\* The parent links of the issue graph form a cycle through the origin issue.
Cyclic == \E id \in DOMAIN issues : issues[id].parent = Node(0)

\* C16: the resolver terminates on every issue graph, cyclic ones included:
\* every call returns, having loaded at most 10 issues, and with an empty
\* result and no error when no branch was found.
C16_ResolverTerminates ==
  /\ [](\A p \in Procs :
          inv[p].op = "resolve" =>
            /\ Count(p, "load") <= MaxDepth
            /\ inv[p].depth <= MaxDepth
            /\ Returned(p, "resolve") /\ NoCallFailed(p)
                 /\ (\A i \in 0..(MaxDepth - 1) : ~EpicWithBranchAt(i))
               => inv[p].result = "ok" /\ inv[p].err = "none"
                    /\ inv[p].branchName = EmptyStr)
  /\ \A p \in Procs : (inv[p].op = "resolve") ~> Returned(p, "resolve")

C16_Witness ==
  \E p \in Procs :
    /\ Returned(p, "resolve") /\ Cyclic
    /\ Cardinality(DOMAIN issues) = 3
    /\ Count(p, "load") = MaxDepth
    /\ inv[p].result = "ok" /\ inv[p].branchName = EmptyStr

(***************************************************************************)
(* C17                                                                     *)
(***************************************************************************)
\* The origin issue has at least MaxDepth parent links above it.
LongChain == Cyclic \/ Node(MaxDepth) \in DOMAIN issues

\* C17: when no issue within the limit yields a verified branch, the
\* resolver stops with an empty result and no error after exactly 10 parent
\* hops; an epic with an existing branch 11 parent hops above the origin
\* issue is not returned.
C17_ResolverStopsAfterTenHops ==
  \A p \in Procs :
    /\ Returned(p, "resolve") /\ inv[p].epicID = Node(0) /\ NoCallFailed(p)
    /\ LongChain
    /\ \A i \in 0..MaxDepth : ~EpicWithBranchAt(i)
    => /\ inv[p].result = "ok" /\ inv[p].err = "none"
       /\ inv[p].branchName = EmptyStr
       /\ inv[p].depth = MaxDepth
       /\ Count(p, "load") = MaxDepth

C17_Witness ==
  \E p \in Procs :
    /\ Returned(p, "resolve") /\ inv[p].epicID = Node(0) /\ NoCallFailed(p)
    /\ ~Cyclic
    /\ EpicWithBranchAt(MaxDepth + 1)
    /\ \A i \in 0..MaxDepth : ~EpicWithBranchAt(i)
    /\ inv[p].result = "ok" /\ inv[p].branchName = EmptyStr
    /\ inv[p].depth = MaxDepth

(***************************************************************************)
(* C18                                                                     *)
(***************************************************************************)
\* C18: an error of the local branch-existence check aborts the resolver
\* with an error; an error of the remote branch-existence check makes it drop
\* that epic's candidate and go on to the parent; a failure to load an issue
\* of the chain is returned as an error.
C18_ResolverErrorHandling ==
  \A p \in Procs :
    inv[p].op = "resolve" =>
      LET ev == inv[p].events IN
      /\ \A i \in 1..Len(ev) :
           /\ ev[i] = Ev("local-check", FALSE) \/ ev[i] = Ev("load", FALSE) =>
                /\ i = Len(ev)
                /\ Returned(p, "resolve") /\ inv[p].result = "err"
                /\ inv[p].err = (IF ev[i].step = "load" THEN "looking-up-issue"
                                 ELSE "checking-local-branch")
                /\ inv[p].branchName = EmptyStr
           /\ ev[i] = Ev("remote-check", FALSE) =>
                IF i < Len(ev) THEN ev[i + 1].step = "load"
                ELSE /\ inv[p].pc \in {"d_parent", "d_show", "done"}
                     /\ inv[p].branchName = EmptyStr
                     /\ inv[p].pc = "done" => inv[p].result = "ok"
      /\ Returned(p, "resolve") /\ inv[p].result = "err" =>
           HasEv(p, "local-check", FALSE) \/ HasEv(p, "load", FALSE)

C18_Witness ==
  \E p \in Procs :
    /\ Returned(p, "resolve") /\ inv[p].result = "ok"
    /\ HasEv(p, "remote-check", FALSE)
    /\ inv[p].branchName # EmptyStr
    /\ inv[p].branchName \in DOMAIN local

\* C19: the readiness Status reports is true exactly when the reported commits
\* ahead of main are more than 0, the reported children are more than 0, all
\* of them are closed and no merge request is pending.
C19_ReadyIffFourClauses ==
  \A p \in Procs :
    Returned(p, "status") /\ inv[p].result = "ok" =>
      (inv[p].out.ready <=>
         /\ inv[p].out.ahead > 0
         /\ inv[p].out.childrenTotal > 0
         /\ inv[p].out.childrenClosed = inv[p].out.childrenTotal
         /\ Cardinality(inv[p].out.pending) = 0)

C19_Witness ==
  \E p \in Procs :
    /\ Returned(p, "status") /\ inv[p].result = "ok"
    /\ inv[p].out.ready
    /\ inv[p].out.childrenTotal = 2
    /\ inv[p].out.merged # {}

\* C20: Status lists a merge request as merged exactly when its target is the
\* epic's integration branch and its status is closed, as pending exactly when
\* its target is that branch and its status is anything else; a merge request
\* with another target or without MR fields is in neither list, none is in
\* both, and the lists hold merge requests only.
C20_StatusPartitionsMRs ==
  \A p \in Procs :
    Returned(p, "status") /\ inv[p].result = "ok" =>
      LET branch == Candidate(inv[p].epicID, issues[inv[p].epicID].description)
          mrs == {i \in DOMAIN issues : MRLabel \in issues[i].labels}
      IN  /\ \A m \in mrs :
               /\ m \in inv[p].out.merged <=>
                    (GetField(issues[m].description, TargetKey) = branch
                       /\ issues[m].status = "closed")
               /\ m \in inv[p].out.pending <=>
                    (GetField(issues[m].description, TargetKey) = branch
                       /\ issues[m].status # "closed")
          /\ inv[p].out.merged \cap inv[p].out.pending = {}
          /\ inv[p].out.merged \cup inv[p].out.pending \subseteq mrs

C20_Witness ==
  \E p \in Procs :
    /\ Returned(p, "status") /\ inv[p].result = "ok"
    /\ inv[p].out.pending = {M2}
    /\ issues[M2].status = "in_progress"
    /\ M1 \notin inv[p].out.merged
    /\ GetField(issues[M1].description, TargetKey) # inv[p].branchName

\* The issues that carry the merge-request label and target the branch.
LabelledFor(store, branch) ==
  {i \in DOMAIN store : /\ MRLabel \in store[i].labels
                        /\ GetField(store[i].description, TargetKey) = branch}

C24_CleanupAttemptsAllThree ==
  \A p \in Procs :
    Returned(p, "land") /\ HasEv(p, "push", TRUE) =>
      /\ inv[p].result = "ok"
      /\ LET names == StepNames(p)
             i == CHOOSE j \in 1..Len(names) : names[j] = "push"
         IN  SubSeq(names, i + 1, Len(names))
               = <<"delete-remote", "delete-local", "close", "teardown">>

C24_Witness ==
  \E p \in Procs :
    /\ Returned(p, "land") /\ HasEv(p, "push", TRUE) /\ inv[p].result = "ok"
    /\ HasEv(p, "delete-remote", FALSE)
    /\ HasEv(p, "delete-local", FALSE)
    /\ HasEv(p, "close", FALSE)

\* C25: the lifecycle is irreversible: no Create succeeds on an epic whose
\* integration branch was landed before (the epic is closed by a land; every
\* epic starts open).
C25_NoCreateAfterLand ==
  \A p \in Procs :
    Returned(p, "create") /\ inv[p].result = "ok" =>
      inv[p].pre.issues[inv[p].epicID].status # "closed"

\* A Create that succeeded on a landed epic: the epic was closed and its
\* branch gone when it started, and the branch is on origin again.
C25_RecreatedAfterLand ==
  \E p \in Procs :
    /\ Returned(p, "create") /\ inv[p].result = "ok"
    /\ inv[p].pre.issues[inv[p].epicID].status = "closed"
    /\ inv[p].branchName = BuildIntegrationBranchName(EmptyStr, inv[p].epicID)
    /\ inv[p].branchName \notin DOMAIN inv[p].pre.origin \cup DOMAIN inv[p].pre.local
    /\ inv[p].branchName \in DOMAIN origin

\* C28: Land never fails at worktree creation for the sole reason that the
\* rig has no bare repository: without one the worktree is created from the
\* working repository mayor/rig.
C28_NoBareRepoIsNoFailure ==
  \A p \in Procs :
    Returned(p, "land") => inv[p].err # "bare-repo-not-found"

\* A Land in a rig without bare repository that passed every step before the
\* worktree and then failed because the bare repository is missing.
C28_FailedForMissingBareRepo ==
  \E p \in Procs :
    /\ Returned(p, "land") /\ ~bareRepo
    /\ HasEv(p, "audit", TRUE) /\ HasEv(p, "fetch", TRUE)
    /\ inv[p].err = "bare-repo-not-found"
    /\ ~HasEv(p, "worktree", TRUE)

\* C29 as stated: for every description, either field and every value v,
\* decoding the field from the result of add-or-replace returns v.
C29_RoundTripReturnsValue ==
  \A p \in Procs :
    Returned(p, "annotate") => inv[p].meta.decoded = inv[p].meta.value

\* C29 amended: decoding the field from the result of add-or-replace returns
\* v with the whitespace around it removed, which is v itself when v has none,
\* also when the description already held lines with that key in any case.
C29_RoundTripReturnsTrimmedValue ==
  \A p \in Procs :
    Returned(p, "annotate") => inv[p].meta.decoded = TrimSpace(inv[p].meta.value)

C29_Witness ==
  \E p \in Procs :
    /\ Returned(p, "annotate")
    /\ LET old == SplitLines(inv[p].epicDesc)
       IN  /\ Len(old) >= 2
           /\ \A i \in 1..Len(old) : IsFieldLine(old[i], inv[p].meta.key)
           /\ \E i \in 1..Len(old) : ~HasPrefix(TrimSpace(old[i]), inv[p].meta.key)
    /\ inv[p].meta.value = TrimSpace(inv[p].meta.value)
    /\ inv[p].meta.decoded = inv[p].meta.value

\* C30: add-or-replace yields the line "key: value" first, followed by the
\* lines of the original description that do not carry the key, verbatim and
\* in their order; no earlier line with the key remains; applying it again
\* with the same value changes nothing.
C30_AddOrReplaceExact ==
  \A p \in Procs :
    inv[p].op = "annotate" /\ inv[p].pc = "f_read" =>
      LET k == inv[p].meta.key
          v == inv[p].meta.value
          old == IF inv[p].epicDesc = EmptyStr THEN << >> ELSE SplitLines(inv[p].epicDesc)
          new == SplitLines(issues[E1].description)
          others == {i \in 1..Len(old) : ~IsFieldLine(old[i], k)}
      IN  /\ new[1] = k \o <<":", " ">> \o v
          /\ Len(new) = 1 + Cardinality(others)
          /\ \A i \in others :
               new[1 + Cardinality({j \in others : j <= i})] = old[i]
          /\ \A i \in 2..Len(new) : ~IsFieldLine(new[i], k)
          /\ AddField(issues[E1].description, k, v) = issues[E1].description

C30_Witness ==
  \E p \in Procs :
    /\ inv[p].op = "annotate" /\ inv[p].pc = "f_read"
    /\ LET old == SplitLines(inv[p].epicDesc)
       IN  /\ Len(old) = 2
           /\ ~IsFieldLine(old[1], inv[p].meta.key)
           /\ IsFieldLine(old[2], inv[p].meta.key)
           /\ issues[E1].description
                = inv[p].meta.key \o <<":", " ">> \o inv[p].meta.value \o <<"\n">> \o old[1]

\* C27 as stated: a Create whose push meets a remote branch that already
\* exists aborts: it returns an error and leaves that remote branch as it was.
C27_PushOnExistingRemoteAborts ==
  \A p \in Procs :
    /\ Returned(p, "create") /\ Did(p, "push")
    /\ inv[p].branchName \in DOMAIN inv[p].pre.origin
    => /\ inv[p].result = "err"
       /\ origin[inv[p].branchName] = inv[p].pre.origin[inv[p].branchName]

\* C27 amended: of two Create invocations for one branch name interleaved in
\* one rig at most one pushes and reports success; a Create that returns an
\* error has pushed nothing; and a push that meets an existing remote branch
\* succeeds only as a fast-forward, so no commit of that branch is lost.
C27_RaceHasOneWinner ==
  /\ \A p, q \in Procs :
       /\ p # q /\ inv[p].op = "create" /\ inv[q].op = "create"
       /\ inv[p].branchName = inv[q].branchName /\ HasEv(p, "push", TRUE)
       => ~HasEv(q, "push", TRUE) /\ ~(Returned(q, "create") /\ inv[q].result = "ok")
  /\ \A p \in Procs :
       /\ Returned(p, "create") /\ inv[p].result = "err" => ~HasEv(p, "push", TRUE)
       /\ Returned(p, "create") /\ HasEv(p, "push", TRUE)
            /\ inv[p].branchName \in DOMAIN inv[p].pre.origin
          => inv[p].pre.origin[inv[p].branchName] \subseteq origin[inv[p].branchName]

\* Both invocations ran at once for the same name, one pushed and succeeded,
\* the other failed.
C27_Witness ==
  \E p, q \in Procs :
    /\ p # q
    /\ Returned(p, "create") /\ inv[p].result = "ok" /\ HasEv(p, "push", TRUE)
    /\ Returned(q, "create") /\ inv[q].result = "err"
    /\ inv[q].branchName = inv[p].branchName
    /\ HasEv(q, "remote-probe", TRUE) /\ HasEv(q, "fetch", TRUE)
    /\ inv[q].err = "creating-branch"
    /\ inv[p].branchName \notin DOMAIN inv[p].pre.origin

\* Positions of a Land between the creation of its worktree and its teardown.
InWorktree == {"l_pull", "l_merge", "l_test", "l_verify", "l_push"}

\* C26: the land worktree is exclusively owned: while a Land is between the
\* creation of its worktree and its teardown, the worktree exists and is the
\* one this Land created; no other Land has removed or replaced it.
C26_WorktreeExclusivelyOwned ==
  \A p \in Procs :
    inv[p].op = "land" /\ inv[p].pc \in InWorktree =>
      wt.dir /\ wt.reg /\ wt.owner = p

\* Two Lands at work at once, both past worktree creation, in the worktree
\* that the later of them created after removing the other's.
C26_WorktreeTakenOver ==
  \E p, q \in Procs :
    /\ p # q
    /\ inv[p].op = "land" /\ inv[p].pc \in InWorktree
    /\ inv[q].op = "land" /\ inv[q].pc \in InWorktree
    /\ HasEv(q, "stale-cleanup", TRUE)
    /\ wt.dir /\ wt.owner = q

\* The readiness of epic e in the store and refs of snapshot w.
ReadyIn(w, e) ==
  LET b == Candidate(e, w.issues[e].description)
      refs == IF b \in DOMAIN w.local THEN w.local ELSE w.track
      children == {i \in DOMAIN w.issues : w.issues[i].parent = e}
  IN  /\ b \in DOMAIN refs /\ refs[b] \ refs[Main] # {}
      /\ children # {}
      /\ \A c \in children : w.issues[c].status = "closed"
      /\ ~\E m \in LabelledFor(w.issues, b) : w.issues[m].status # "closed"

\* C22: whenever the patrol has a Land under way, both settings were on in
\* that tick (refinery enabled: absent counts as on; auto-land: absent counts
\* as off), the epic was open and ready to land when the Land was invoked,
\* and the Land runs without force.
C22_PatrolLandsOnlyWhenEnabledAndReady ==
  \A p \in Procs :
    inv[p].op = "land" /\ p = "patrol" =>
      /\ inv[p].tick.refinery \in {"absent", "true"}
      /\ inv[p].tick.autoLand = "true"
      /\ inv[p].pre.issues[inv[p].epicID].type = "epic"
      /\ inv[p].pre.issues[inv[p].epicID].status = "open"
      /\ inv[p].out.ready /\ ReadyIn(inv[p].pre, inv[p].epicID)
      /\ ~inv[p].force

C22_Witness ==
  \E p \in Procs :
    /\ Returned(p, "land") /\ p = "patrol" /\ inv[p].result = "ok"
    /\ inv[p].tick.refinery = "absent" /\ inv[p].tick.autoLand = "true"
    /\ inv[p].epicID = E2
    /\ inv[p].tick.seen = <<E1, E2>>

\* The lands of the current tick that returned success.
LandedInTick(p) ==
  {i \in 1..Len(inv[p].tick.lands) : inv[p].tick.lands[i].result = "ok"}

WellFormedName(n) ==
  /\ Len(n) > 0
  /\ \A i \in 1..Len(n) : n[i] \notin {"~", "^", ":", "\\", " ", "\t", "\n", "\r", "\f"}
  /\ \A i \in 1..(Len(n) - 1) :
       /\ ~(n[i] = "." /\ n[i+1] = ".")
       /\ ~(n[i] = "@" /\ n[i+1] = "{")
       /\ ~(n[i] = "/" /\ n[i+1] = "/")
  /\ ~(Len(n) >= 5 /\ SubSeq(n, Len(n) - 4, Len(n)) = <<".","l","o","c","k">>)
  /\ n[1] \notin {"/", "."}
  /\ n[Len(n)] \notin {"/", "."}

GlobChars == {"?", "*", "["}

\* C32: validateBranchName rejects every branch name that contains a
\* question mark, an asterisk or an open square bracket.
C32_GlobCharsRejected ==
  \A p \in Procs :
    (/\ Returned(p, "validate")
     /\ \E i \in 1..Len(inv[p].branchName) : inv[p].branchName[i] \in GlobChars)
      => inv[p].result = "err"

\* A name with a question mark has been accepted.
C32_GlobNameAccepted ==
  \E p \in Procs :
    /\ Returned(p, "validate")
    /\ inv[p].branchName = <<"a", "?", "a">>
    /\ inv[p].result = "ok"

(***************************************************************************)
(* C33                                                                     *)
(***************************************************************************)
\* C33: every Land that pushes the base branch, or deletes the integration
\* branch, has first observed a non-empty diff HEAD~1..HEAD in the worktree;
\* when the inspection yields no non-empty result, the failure of the
\* inspection command included, Land reaches neither.
C33_PushOnlyAfterNonEmptyDiff ==
  \A p \in Procs :
    (inv[p].op = "land" /\ (Did(p, "push") \/ Did(p, "delete-remote") \/ Did(p, "delete-local")))
      => (inv[p].diff = "changes" /\ HasEv(p, "verify", TRUE))

\* A Land whose diff command failed has pushed the base branch and deleted
\* the integration branch on origin.
C33_PushedAfterFailedDiff ==
  \E p \in Procs :
    /\ Returned(p, "land")
    /\ inv[p].diff = "err"
    /\ HasEv(p, "push", TRUE)
    /\ HasEv(p, "delete-remote", TRUE)
    /\ inv[p].branchName \in DOMAIN inv[p].pre.origin
    /\ inv[p].branchName \notin DOMAIN origin

(***************************************************************************)
(* C34                                                                     *)
(***************************************************************************)
\* position of the first event of a step in the log of p, 0 when absent
FirstAt(p, step) ==
  IF Did(p, step)
    THEN CHOOSE i \in 1..Len(inv[p].events) :
           /\ inv[p].events[i].step = step
           /\ \A j \in 1..(i - 1) : inv[p].events[j].step # step
    ELSE 0

\* C34: if the merge in Land fails, Land issues merge --abort in the worktree
\* before the worktree is torn down and returns an error; the test command
\* is not run, nothing is pushed, no branch is deleted and the epic is not
\* closed.
C34_FailedMergeAbortsAndStops ==
  \A p \in Procs :
    (Returned(p, "land") /\ HasEv(p, "merge", FALSE)) =>
      /\ inv[p].result = "err"
      /\ Did(p, "abort") /\ Did(p, "teardown")
      /\ FirstAt(p, "merge") < FirstAt(p, "abort")
      /\ FirstAt(p, "abort") < FirstAt(p, "teardown")
      /\ ~Did(p, "test") /\ ~Did(p, "verify") /\ ~Did(p, "push")
      /\ ~Did(p, "delete-remote") /\ ~Did(p, "delete-local") /\ ~Did(p, "close")
      /\ origin = inv[p].pre.origin
      /\ LocalBranchAsBefore(p, inv[p].branchName)
      /\ EpicStatusAsBefore(p)

\* A Land with a configured test command, tests not skipped, whose merge
\* failed has returned.
C34_Witness ==
  \E p \in Procs :
    /\ Returned(p, "land")
    /\ HasEv(p, "merge", FALSE)
    /\ testCommand = MakeTest /\ ~inv[p].skipTests
    /\ inv[p].branchName \in DOMAIN origin
    /\ issues[inv[p].epicID].status = "open"

(***************************************************************************)
(* C35                                                                     *)
(***************************************************************************)
\* the land of p ran the test command, in the worktree and after the merge
RanTests(p) ==
  /\ Did(p, "test")
  /\ FirstAt(p, "worktree") < FirstAt(p, "merge")
  /\ FirstAt(p, "merge") < FirstAt(p, "test")
  /\ Did(p, "teardown") => FirstAt(p, "test") < FirstAt(p, "teardown")

\* the land of p stopped at a failed test run, before the diff and the push
StoppedAtFailedTests(p) ==
  HasEv(p, "test", FALSE) =>
    /\ inv[p].result = "err"
    /\ ~Did(p, "verify") /\ ~Did(p, "push")
    /\ origin = inv[p].pre.origin

\* C35 as stated: Land runs the configured test command, inside the
\* disposable worktree and after the merge, exactly when skip_tests is false
\* and a non-empty test command is configured; if the command exits non-zero
\* Land returns an error before the diff verification and the push.
C35_TestsRunIffConfiguredNonEmpty ==
  \A p \in Procs :
    (Returned(p, "land") /\ HasEv(p, "merge", TRUE)) =>
      /\ RanTests(p) <=> (~inv[p].skipTests /\ testCommand # EmptyStr)
      /\ StoppedAtFailedTests(p)

\* C35 amended: the command is run exactly when skip_tests is false and the
\* configured test command holds at least one non-blank word; a failed run
\* ends Land with an error before the diff verification and the push.
C35_TestsRunIffConfiguredNonBlank ==
  \A p \in Procs :
    (Returned(p, "land") /\ HasEv(p, "merge", TRUE)) =>
      /\ RanTests(p) <=>
           (~inv[p].skipTests /\ \E i \in 1..Len(testCommand) : ~IsSpace(testCommand[i]))
      /\ StoppedAtFailedTests(p)

\* A Land whose test run failed has returned, and the base branch of origin
\* is where it was.
C35_Witness ==
  \E p \in Procs :
    /\ Returned(p, "land")
    /\ HasEv(p, "test", FALSE)
    /\ testCommand = MakeTest
    /\ origin[inv[p].targetBranch] = inv[p].pre.origin[inv[p].targetBranch]

(***************************************************************************)
(* C36                                                                     *)
(***************************************************************************)
\* the base branch the description of the epic records, main when it records none
RecordedBase(p) ==
  LET d == inv[p].pre.issues[inv[p].epicID].description
  IN  IF \E i \in 1..Len(SplitLines(d)) : IsFieldLine(SplitLines(d)[i], BaseBranchKey)
        THEN GetBaseBranchField(d) ELSE Main

\* C36: Land merges into and pushes exactly the base branch recorded in the
\* epic's base_branch field, or main when the field is absent: the worktree
\* is checked out on that branch, the pull and the push name that branch,
\* and no other branch of origin is pushed by Land.
C36_LandsOnRecordedBase ==
  \A p \in Procs :
    (inv[p].op = "land" /\ Did(p, "audit")) =>
      LET base == RecordedBase(p) IN
      /\ (wt.dir /\ wt.owner = p) => wt.branch = base
      /\ \A b \in DOMAIN local \ {base, inv[p].branchName} :
           local[b] = inv[p].pre.local[b]
      /\ \A b \in DOMAIN origin \ {base} :
           b \in DOMAIN inv[p].pre.origin /\ origin[b] = inv[p].pre.origin[b]
      /\ HasEv(p, "merge", TRUE) =>
           inv[p].pre.origin[inv[p].branchName] \subseteq local[base]
      /\ HasEv(p, "push", TRUE) =>
           /\ origin[base] = local[base]
           /\ inv[p].pre.origin[base] \subseteq origin[base]
           /\ inv[p].pre.origin[inv[p].branchName] \subseteq origin[base]

\* A Land of an epic that records base_branch: dev has pushed dev, with the
\* commits origin had on dev and those of the integration branch, and main
\* of origin is untouched.
C36_Witness ==
  \E p \in Procs :
    /\ Returned(p, "land")
    /\ HasEv(p, "push", TRUE)
    /\ RecordedBase(p) = Dev
    /\ {"d", "w", "m"} \subseteq origin[Dev]
    /\ origin[Main] = inv[p].pre.origin[Main]

(***************************************************************************)
(* C37                                                                     *)
(***************************************************************************)
\* the issue i links up is the nearest epic of the chain whose candidate exists
NearestVerifying(i) ==
  EpicWithBranchAt(i) /\ \A j \in 0..(i - 1) : ~EpicWithBranchAt(j)

\* C37 as stated: the result is the candidate of the nearest issue on the
\* chain that is an epic and whose candidate exists locally or on origin,
\* and it is empty when the chain has none.
C37_ResultIsNearestVerifiedCandidate ==
  \A p \in Procs :
    (Returned(p, "resolve") /\ inv[p].epicID = Node(0)) =>
      /\ \A i \in 0..MaxChain :
           NearestVerifying(i) =>
             /\ inv[p].result = "ok"
             /\ inv[p].branchName = Candidate(Node(i), issues[Node(i)].description)
      /\ (\A i \in 0..MaxChain : ~EpicWithBranchAt(i)) =>
           inv[p].result = "ok" /\ inv[p].branchName = EmptyStr

\* C37 amended: a non-empty result is always the candidate of an epic of the
\* chain that exists locally or on origin; when no issue load and no branch
\* check fails, it is that of the nearest such epic among the first ten
\* issues of the chain, nearer epics whose candidate exists nowhere being
\* skipped, and the result is empty exactly when these ten hold none.
C37_ResultIsNearestVerifiedWithinDepth ==
  \A p \in Procs :
    (Returned(p, "resolve") /\ inv[p].epicID = Node(0)) =>
      /\ inv[p].branchName # EmptyStr =>
           /\ inv[p].result = "ok"
           /\ inv[p].depth < MaxDepth
           /\ Known(inv[p].current) /\ issues[inv[p].current].type = "epic"
           /\ inv[p].branchName =
                Candidate(inv[p].current, issues[inv[p].current].description)
           /\ inv[p].branchName \in DOMAIN local \cup DOMAIN origin
      /\ NoCallFailed(p) =>
           /\ inv[p].branchName # EmptyStr =>
                inv[p].current = Node(inv[p].depth) /\ NearestVerifying(inv[p].depth)
           /\ inv[p].branchName = EmptyStr =>
                /\ inv[p].result = "ok"
                /\ \A i \in 0..(MaxDepth - 1) : ~EpicWithBranchAt(i)

\* The walk has passed an epic whose default-named candidate exists nowhere
\* and returned the branch of the epic at the top of the chain.
C37_Witness ==
  \E p \in Procs :
    /\ Returned(p, "resolve") /\ inv[p].result = "ok" /\ NoCallFailed(p)
    /\ inv[p].depth = 2
    /\ issues[Node(1)].type = "epic" /\ ~EpicWithBranchAt(1)
    /\ GetIntegrationBranchField(issues[Node(1)].description) = EmptyStr
    /\ inv[p].branchName = NamedBranch(Node(2))
    /\ inv[p].branchName \in DOMAIN local

(***************************************************************************)
(* C38                                                                     *)
(***************************************************************************)
\* C38: whenever Status reports at least one pending MR for the epic's
\* integration branch (an MR targeting it whose status is not closed), a
\* Land of that epic without force over the same issues fails at the MR
\* audit: the two never disagree about whether the branch is blocked.
C38_PendingReportedBlocksLand ==
  \A p, q \in Procs :
    (/\ Returned(q, "status") /\ inv[q].result = "ok" /\ inv[q].out.pending # {}
     /\ inv[p].op = "land" /\ inv[p].epicID = inv[q].epicID
     /\ ~inv[p].force /\ Did(p, "audit"))
      => HasEv(p, "audit", FALSE)

\* Status has reported the in-progress MR as pending, and a Land without
\* force has pushed the base and deleted the branch the MR targets.
C38_LandedOverPendingMR ==
  \E p, q \in Procs :
    /\ Returned(q, "status") /\ inv[q].out.pending = {M1}
    /\ issues[M1].status = "in_progress"
    /\ Returned(p, "land") /\ ~inv[p].force /\ inv[p].result = "ok"
    /\ HasEv(p, "push", TRUE) /\ HasEv(p, "delete-remote", TRUE)
    /\ TargetsBranch(M1, inv[p].branchName)
    /\ inv[p].branchName \notin DOMAIN origin

(***************************************************************************)
(* C39                                                                     *)
(***************************************************************************)
\* C39: in every interleaving of a non-forced Land with MR submissions, at
\* the moment Land deletes the integration branch no open MR targets that
\* branch.
C39_NoOpenMROnDeletedBranch ==
  \A p \in Procs :
    (/\ inv[p].op = "land" /\ ~inv[p].force
     /\ inv[p].pc = After("l_delremote")
     /\ HasEv(p, "delete-remote", TRUE))
      => findOpenMRsForIntegration(inv[p].branchName) = {}

\* An MR submitted after the audit of a non-forced Land is open and targets
\* the branch the Land has just deleted on origin.
C39_MRLeftOnDeletedBranch ==
  \E p, q \in Procs :
    /\ inv[p].op = "land" /\ ~inv[p].force
    /\ HasEv(p, "audit", TRUE) /\ HasEv(p, "delete-remote", TRUE)
    /\ inv[p].pc = After("l_delremote")
    /\ inv[p].branchName \notin DOMAIN origin
    /\ Returned(q, "submit") /\ inv[q].result = "ok"
    /\ M1 \notin DOMAIN inv[p].pre.issues
    /\ M1 \in findOpenMRsForIntegration(inv[p].branchName)

(***************************************************************************)
(* C40                                                                     *)
(***************************************************************************)
\* no step takes a commit away from a base branch of origin
KeepsBaseCommits ==
  \A b \in {Main, Dev} \cap DOMAIN origin :
    b \in DOMAIN origin' /\ origin[b] \subseteq origin'[b]

\* a push attempted while origin's base holds commits the worktree lacks
\* fails: origin is left alone and the command ends with the push error
StalePushFails ==
  \A p \in Procs :
    (/\ inv[p].pc = "l_push" /\ inv'[p].pc # "l_push"
     /\ inv[p].targetBranch \in DOMAIN origin
     /\ ~(origin[inv[p].targetBranch] \subseteq local[inv[p].targetBranch]))
      => /\ origin' = origin
         /\ inv'[p].result = "err" /\ inv'[p].err = "push-failed"

\* a Land whose push failed has left the integration branch and the epic alone
FailedPushLeavesBranchAndEpic ==
  \A p \in Procs :
    (Returned(p, "land") /\ HasEv(p, "push", FALSE)) =>
      /\ inv[p].result = "err"
      /\ inv[p].branchName \in DOMAIN origin
      /\ origin[inv[p].branchName] = inv[p].pre.origin[inv[p].branchName]
      /\ LocalBranchAsBefore(p, inv[p].branchName)
      /\ EpicStatusAsBefore(p)
      /\ ~Did(p, "delete-remote") /\ ~Did(p, "delete-local") /\ ~Did(p, "close")

\* C40: Land never discards commits from origin's base branch: when another
\* party advances origin/<base> after Land's pull and before its push, the
\* push, never forced, fails, Land returns an error, origin/<base> still
\* holds the other party's commits, and the integration branch and the epic
\* are left as they were.
C40_LandKeepsOriginBaseCommits ==
  /\ [][KeepsBaseCommits /\ StalePushFails]_vars
  /\ []FailedPushLeavesBranchAndEpic

\* The other party's commit arrived on origin's base after Land had pulled
\* the base; Land's push failed and the commit is still there.
C40_Witness ==
  \E p \in Procs :
    /\ Returned(p, "land") /\ HasEv(p, "push", FALSE)
    /\ "x" \in local[inv[p].targetBranch] \/ "d" \in local[inv[p].targetBranch]
    /\ OtherCommit \in origin[inv[p].targetBranch]
    /\ OtherCommit \notin local[inv[p].targetBranch]
    /\ "m" \notin origin[inv[p].targetBranch]
    /\ issues[inv[p].epicID].status = "open"
====
